---- MODULE Spec2Model ----
(***************************************************************************)
(* Model of the price-data access layer of react-native-challenge:         *)
(* the retrying HTTP client of lib/api/coingecko (fetchWithTimeout,        *)
(* fetchWithRetry, parseError), the three repository functions built on it *)
(* (fetchPrices, fetchSinglePrice, fetchChartDataWithVolume) and the store *)
(* operations that call them (fetchAllPrices, refreshPrices,               *)
(* getChartData).                                                          *)
(*                                                                         *)
(* One behaviour of Spec is one call of one of these operations, followed  *)
(* through every await boundary of the code: the HTTP request, the abort   *)
(* timer, the backoff sleep and the read of the body.                      *)
(***************************************************************************)
EXTENDS Integers, Sequences, FiniteSets, TLC

(***************************************************************************)
(* Program constants.                                                      *)
(***************************************************************************)
MAX_RETRIES == 3
INITIAL_RETRY_DELAY == 1000
REQUEST_TIMEOUT == 10000
ONE_HOUR_MS == 3600000
CHART_CACHE_DURATION == 300000
MAX_CHART_CACHE_SIZE == 20
PRICE_POLL_INTERVAL == 30000

(***************************************************************************)
(* Bounds of the model: the sizes of the response bodies the environment   *)
(* may send.                                                               *)
(***************************************************************************)
MaxEntries == 2
MaxPoints == 2
MaxVolPoints == 1
\* The same sizes for the bodies sent at the end of a whole call (Spec), where
\* every body is combined with every retry history.
MaxNetEntries == 1
MaxNetPoints == 1

(***************************************************************************)
(* JavaScript values that can stand where the code expects a number.       *)
(* k = "num": a finite number v;  "nan": NaN;  "inf": +Infinity;           *)
(* "undef": undefined or null;  "str": a non-numeric string.               *)
(***************************************************************************)
Num(n) == [k |-> "num", v |-> n]
NaNV == [k |-> "nan", v |-> 0]
InfV == [k |-> "inf", v |-> 0]
UndefV == [k |-> "undef", v |-> 0]
StrV == [k |-> "str", v |-> 0]

\* typeof x === "number"
IsNumber(x) == x.k \in {"num", "nan", "inf"}
\* isFinite(x)
isFinite(x) == x.k = "num"
\* isNaN(x)
isNaN(x) == x.k \in {"nan", "undef", "str"}
\* x > n
Gt(x, n) == (x.k = "num" /\ x.v > n) \/ x.k = "inf"
\* x >= n
Ge(x, n) == (x.k = "num" /\ x.v >= n) \/ x.k = "inf"
\* x ?? d
Coalesce(x, d) == IF x.k = "undef" THEN d ELSE x

(***************************************************************************)
(* Errors.  An ApiError is its type and its retryable flag; NoError is     *)
(* null.                                                                   *)
(***************************************************************************)
ApiErrorType ==
  {"NETWORK", "TIMEOUT", "RATE_LIMIT", "NOT_FOUND", "SERVER_ERROR", "PARSE_ERROR", "UNKNOWN"}

NoError == [type |-> "none", retryable |-> FALSE]

createApiError(type, retryable) == [type |-> type, retryable |-> retryable]

\* A thrown value: isError = (error instanceof Error), name = error.name,
\* netMsg = the message contains "Network request failed", "Failed to fetch"
\* or "fetch failed", isSyntax = (error instanceof SyntaxError).
Exc(isError, name, netMsg, isSyntax) ==
  [isError |-> isError, name |-> name, netMsg |-> netMsg, isSyntax |-> isSyntax]

NoExc == Exc(FALSE, "none", FALSE, FALSE)
AbortError == Exc(TRUE, "AbortError", FALSE, FALSE)
TypeErrorExc == Exc(TRUE, "TypeError", FALSE, FALSE)
SyntaxErrorExc == Exc(TRUE, "SyntaxError", FALSE, TRUE)

\* The values the request or the body read may throw: an abort, the two
\* shapes of a connectivity failure, a JSON syntax error, any other Error, a
\* thrown value that is no Error, and such a value that calls itself AbortError.
Exceptions ==
  {AbortError,
   Exc(TRUE, "TypeError", TRUE, FALSE),
   Exc(TRUE, "Error", TRUE, FALSE),
   TypeErrorExc,
   SyntaxErrorExc,
   Exc(TRUE, "Error", FALSE, FALSE),
   Exc(FALSE, "none", FALSE, FALSE),
   Exc(FALSE, "AbortError", FALSE, FALSE)}

NoResponse == [present |-> FALSE, status |-> 0]
Response(s) == [present |-> TRUE, status |-> s]

\* response.ok
Ok(s) == s >= 200 /\ s <= 299

\* Mutant: a TypeError is not taken for a connectivity failure.
parseErrorNoTypeError(error, response) ==
  IF response.present
  THEN IF response.status = 429 THEN createApiError("RATE_LIMIT", TRUE)
       ELSE IF response.status = 404 THEN createApiError("NOT_FOUND", FALSE)
       ELSE IF response.status >= 500 THEN createApiError("SERVER_ERROR", TRUE)
       ELSE createApiError("UNKNOWN", TRUE)
  ELSE IF error.isError
       THEN IF error.name = "AbortError" THEN createApiError("TIMEOUT", TRUE)
            ELSE IF error.netMsg THEN createApiError("NETWORK", TRUE)
            ELSE IF error.isSyntax THEN createApiError("PARSE_ERROR", TRUE)
            ELSE createApiError("UNKNOWN", TRUE)
       ELSE createApiError("UNKNOWN", TRUE)

parseError(error, response) ==
  IF response.present
  THEN IF response.status = 429 THEN createApiError("RATE_LIMIT", TRUE)
       ELSE IF response.status = 404 THEN createApiError("NOT_FOUND", FALSE)
       ELSE IF response.status >= 500 THEN createApiError("SERVER_ERROR", TRUE)
       ELSE createApiError("UNKNOWN", TRUE)
  ELSE IF error.isError
       THEN IF error.name = "AbortError" THEN createApiError("TIMEOUT", TRUE)
            ELSE IF error.netMsg \/ error.name = "TypeError"
                 THEN createApiError("NETWORK", TRUE)
            ELSE IF error.isSyntax THEN createApiError("PARSE_ERROR", TRUE)
            ELSE createApiError("UNKNOWN", TRUE)
       ELSE createApiError("UNKNOWN", TRUE)

(***************************************************************************)
(* ApiResult.  kind = "rejected" stands for a promise that rejects         *)
(* instead of resolving with a result.                                     *)
(***************************************************************************)
NoData == <<>>
NoResult == [kind |-> "none", error |-> NoError, data |-> NoData]
Success(d) == [kind |-> "success", error |-> NoError, data |-> d]
Failure(e) == [kind |-> "failure", error |-> e, data |-> NoData]
Rejected == [kind |-> "rejected", error |-> NoError, data |-> NoData]

(***************************************************************************)
(* The catch block shared by fetchPrices, fetchSinglePrice and             *)
(* fetchChartDataWithVolume: whatever is thrown inside the try becomes a   *)
(* failure result.                                                         *)
(***************************************************************************)
\* Mutant: the catch block lets the error escape.
CatchBlockRethrows(error) == Rejected

CatchBlock(error) == Failure(parseError(error, NoResponse))

(***************************************************************************)
(* Response bodies of /simple/price, as response.json() yields them.       *)
(* k = "null": null;  "scalar": a value that is not an object;             *)
(* "object": an object whose entries, in key order, are `entries`.         *)
(* An entry is its key and either null (isNull) or an object whose usd     *)
(* field is `usd`.                                                         *)
(***************************************************************************)
CRYPTO_IDS == {"bitcoin", "ethereum", "solana"}
\* The id a call is made for.
CallIds == {"bitcoin"}

PriceVals == {Num(0 - 1), Num(0), Num(2), NaNV, InfV, UndefV, StrV}

PriceEntries ==
  {[id |-> i, isNull |-> TRUE, usd |-> UndefV] : i \in CRYPTO_IDS}
    \cup [id : CRYPTO_IDS, isNull : {FALSE}, usd : PriceVals]

\* The entries of the bodies that end a whole call.
NetPriceEntries ==
  {[id |-> "bitcoin", isNull |-> TRUE, usd |-> UndefV]}
    \cup [id : {"bitcoin", "ethereum"}, isNull : {FALSE}, usd : {Num(0), Num(2)}]

SeqsUpTo(S, n) == UNION {[1..k -> S] : k \in 0..n}

\* The bodies with at most n entries out of E, no key twice.
PriceBodies(E, n) ==
  {[k |-> "null", entries |-> <<>>], [k |-> "scalar", entries |-> <<>>]}
    \cup {[k |-> "object", entries |-> es] :
            es \in {q \in SeqsUpTo(E, n) :
                      \A i, j \in 1..Len(q) : q[i].id = q[j].id => i = j}}

\* priceInfo?.usd
UsdOf(entry) == IF entry.isNull THEN UndefV ELSE entry.usd

PriceData(id, price, t) == [cryptoId |-> id, price |-> price, lastUpdated |-> t]

\* Mutant: a price of 0 passes the filter.
IsValidPriceNonNegative(p) == Ge(p.price, 0) /\ isFinite(p.price) /\ ~isNaN(p.price)

\* The filter of fetchPrices.
IsValidPrice(p) == Gt(p.price, 0) /\ isFinite(p.price) /\ ~isNaN(p.price)

\* Mutant: a body without a valid entry is a success with an empty list.
fetchPricesBodyAllowsEmpty(data, t) ==
  IF data.k # "object"
  THEN Failure(createApiError("PARSE_ERROR", TRUE))
  ELSE LET prices == [i \in 1..Len(data.entries) |->
                        PriceData(data.entries[i].id,
                                  Coalesce(UsdOf(data.entries[i]), Num(0)), t)]
       IN Success(SelectSeq(prices, IsValidPrice))

\* fetchPrices after `await response.json()` has yielded `data` at time t.
fetchPricesBody(data, t) ==
  IF data.k # "object" \/ Len(data.entries) = 0
  THEN Failure(createApiError("PARSE_ERROR", TRUE))
  ELSE LET prices == [i \in 1..Len(data.entries) |->
                        PriceData(data.entries[i].id,
                                  Coalesce(UsdOf(data.entries[i]), Num(0)), t)]
           validPrices == SelectSeq(prices, IsValidPrice)
       IN IF Len(validPrices) = 0
          THEN Failure(createApiError("PARSE_ERROR", TRUE))
          ELSE Success(validPrices)

\* The price check of fetchSinglePrice.
IsInvalidSinglePrice(price) == ~IsNumber(price) \/ ~isFinite(price) \/ isNaN(price)

\* fetchSinglePrice after `await response.json()` has yielded `data` at time t.
\* data[cryptoId] on null throws a TypeError, which the catch block turns
\* into a failure.
fetchSinglePriceBody(data, cryptoId, t) ==
  IF data.k = "null" THEN CatchBlock(TypeErrorExc)
  ELSE LET hits == {i \in 1..Len(data.entries) : data.entries[i].id = cryptoId}
       IN IF hits = {} \/ (\E i \in hits : data.entries[i].isNull)
          THEN Failure(createApiError("NOT_FOUND", FALSE))
          ELSE LET price == data.entries[CHOOSE i \in hits : TRUE].usd
               IN IF IsInvalidSinglePrice(price)
                  THEN Failure(createApiError("PARSE_ERROR", TRUE))
                  ELSE Success(PriceData(cryptoId, price, t))

(***************************************************************************)
(* Response bodies of /coins/{id}/market_chart.                            *)
(* k = "noprices": null, or data.prices missing or not an array;           *)
(* "object": data.prices is the array `prices`.  total_volumes is missing  *)
(* (vk = "missing"), the array `volumes` (vk = "array") or a truthy value  *)
(* that is no array (vk = "nonarray").  A point is a pair [ts, value], or  *)
(* a value that cannot be destructured (bad), such as null.                *)
(***************************************************************************)
Point(ts, value) == [bad |-> FALSE, ts |-> ts, value |-> value]
BadPoint == [bad |-> TRUE, ts |-> UndefV, value |-> UndefV]

\* Timestamps around the one-hour window that ends at t.
OldTs(t) == Num(t - ONE_HOUR_MS - 1)
RecentTs(t) == Num(t - 1)

\* Points of data.prices: valid ones at two times, and one for each way of
\* being invalid.
ChartPoints(t) ==
  {Point(OldTs(t), Num(1)), Point(RecentTs(t), Num(2)),
   Point(NaNV, Num(1)), Point(StrV, Num(1)),
   Point(RecentTs(t), Num(0)), Point(RecentTs(t), Num(0 - 1)),
   Point(RecentTs(t), NaNV), Point(RecentTs(t), StrV),
   BadPoint}

\* Points of data.total_volumes.
VolumePoints(t) ==
  {Point(OldTs(t), Num(1)), Point(RecentTs(t), Num(0)),
   Point(RecentTs(t), Num(0 - 1)), Point(NaNV, Num(1)), BadPoint}

\* The points of the bodies that end a whole call.
NetChartPoints(t) == {Point(RecentTs(t), Num(2)), Point(RecentTs(t), Num(0)), BadPoint}

\* The bodies with at most n price points out of P and at most m volume
\* points out of V.
ChartBodies(P, V, n, m) ==
  {[k |-> "noprices", prices |-> <<>>, vk |-> "missing", volumes |-> <<>>]}
    \cup {[k |-> "object", prices |-> ps, vk |-> vk, volumes |-> <<>>] :
            ps \in SeqsUpTo(P, n), vk \in {"nonarray", "missing"}}
    \cup {[k |-> "object", prices |-> ps, vk |-> "array", volumes |-> vs] :
            ps \in SeqsUpTo(P, n), vs \in SeqsUpTo(V, m)}

ChartTimeframes == {"1h", "24h"}

\* ([timestamp]) => timestamp >= oneHourAgo
InLastHour(p, t) == Ge(p.ts, t - ONE_HOUR_MS)

\* Mutant: a price point of value 0 passes the filter.
IsValidPricePointNonNegative(p) ==
  IsNumber(p.ts) /\ IsNumber(p.value) /\ isFinite(p.value) /\ ~isNaN(p.value)
    /\ Ge(p.value, 0)

\* The filter applied to data.prices.
IsValidPricePoint(p) ==
  IsNumber(p.ts) /\ IsNumber(p.value) /\ isFinite(p.value) /\ ~isNaN(p.value)
    /\ Gt(p.value, 0)

\* The filter applied to data.total_volumes.
IsValidVolumePoint(p) ==
  IsNumber(p.ts) /\ IsNumber(p.value) /\ isFinite(p.value) /\ ~isNaN(p.value)
    /\ Ge(p.value, 0)

\* .map(([timestamp, value]) => ({ timestamp, value }))
ToDataPoints(ps) == [i \in 1..Len(ps) |-> [timestamp |-> ps[i].ts, value |-> ps[i].value]]

\* filterLastHour: the 1h window, in the order of the array.
filterLastHour(raw, timeframe, t) ==
  IF timeframe = "1h"
  THEN SelectSeq(raw, LAMBDA p : InLastHour(p, t))
  ELSE raw

\* Destructuring a bad point, or calling .filter on a total_volumes that is
\* no array, throws a TypeError.
ChartBodyThrows(data) ==
  \/ \E i \in 1..Len(data.prices) : data.prices[i].bad
  \/ data.vk = "nonarray"
  \/ \E i \in 1..Len(data.volumes) : data.volumes[i].bad

\* fetchChartDataWithVolume after `await response.json()` has yielded `data`.
fetchChartBody(data, timeframe, t) ==
  IF data.k # "object"
  THEN Failure(createApiError("PARSE_ERROR", TRUE))
  ELSE IF ChartBodyThrows(data) THEN CatchBlock(TypeErrorExc)
  ELSE LET prices == ToDataPoints(SelectSeq(filterLastHour(data.prices, timeframe, t), IsValidPricePoint))
           volumes == ToDataPoints(SelectSeq(filterLastHour(data.volumes, timeframe, t), IsValidVolumePoint))
       IN IF Len(prices) = 0
          THEN Failure(createApiError("PARSE_ERROR", TRUE))
          ELSE Success([prices |-> prices, volumes |-> volumes])

(***************************************************************************)
(* fetchWithRetry: the decisions of one pass of its loop.                  *)
(***************************************************************************)
\* Don't retry client errors (except rate limit).
IsClientError(status) == status >= 400 /\ status < 500 /\ status # 429

\* Mutant: one retry too many.
ShouldRetryStatusOffByOne(status, att) ==
  (status = 429 \/ status >= 500) /\ att <= MAX_RETRIES

\* Retry on rate limit and server errors, while retries are left.
ShouldRetryStatus(status, att) == (status = 429 \/ status >= 500) /\ att < MAX_RETRIES

\* Mutant: every error status is retried.
RetryDecisionAnyError(status, att) ==
  IF status >= 400 /\ att < MAX_RETRIES THEN "retry" ELSE "return"

\* What the try branch does with a response: hand it back, or back off and
\* go round the loop again.
RetryDecision(status, att) ==
  IF IsClientError(status) THEN "return"
  ELSE IF ShouldRetryStatus(status, att) THEN "retry"
  ELSE "return"

\* Mutant: the catch branch gives up one attempt early.
ShouldRethrowEarly(err, att) == ~err.retryable \/ att + 1 >= MAX_RETRIES

\* The catch branch rethrows an error that is not retryable, or the last one.
ShouldRethrow(err, att) == ~err.retryable \/ att >= MAX_RETRIES

\* Mutant: linear instead of exponential backoff.
RetryDelayLinear(att) == INITIAL_RETRY_DELAY * (att + 1)

\* INITIAL_RETRY_DELAY * Math.pow(2, attempt)
RetryDelay(att) == INITIAL_RETRY_DELAY * 2^att

\* What a repository function returns for a response that is not ok.
StatusError(fn, status) ==
  IF fn = "fetchChartDataWithVolume" /\ status = 404
  THEN createApiError("NOT_FOUND", FALSE)
  ELSE parseError(NoExc, Response(status))

(***************************************************************************)
(* The stores.  chartCache keeps the insertion order of its keys, as the   *)
(* object of the code does; a cache key is the pair <<cryptoId,            *)
(* timeframe>>.  lastFetchTime is <<>> for null and <<t>> for the time t.  *)
(***************************************************************************)
CacheKey(cryptoId, timeframe) == <<cryptoId, timeframe>>

\* Mutant: an entry is stored without the time it was fetched at.
CacheEntryNoTime(key, prices, volumes, timeframe, fetchedAt) ==
  [key |-> key, prices |-> prices, volumes |-> volumes, timeframe |-> timeframe,
   fetchedAt |-> 0]

CacheEntry(key, prices, volumes, timeframe, fetchedAt) ==
  [key |-> key, prices |-> prices, volumes |-> volumes, timeframe |-> timeframe,
   fetchedAt |-> fetchedAt]

NoEntry == [key |-> <<>>, prices |-> <<>>, volumes |-> <<>>, timeframe |-> "", fetchedAt |-> 0]

\* chartCache[cacheKey], NoEntry for undefined.
Lookup(cache, key) ==
  IF \E i \in 1..Len(cache) : cache[i].key = key
  THEN cache[CHOOSE i \in 1..Len(cache) : cache[i].key = key]
  ELSE NoEntry

\* Mutant: an entry exactly CHART_CACHE_DURATION old is still served.
IsFreshInclusive(cached, timeframe, t) ==
  /\ cached # NoEntry
  /\ cached.timeframe = timeframe
  /\ t - cached.fetchedAt <= CHART_CACHE_DURATION

\* The cache check of getChartData at time t.
IsFresh(cached, timeframe, t) ==
  /\ cached # NoEntry
  /\ cached.timeframe = timeframe
  /\ t - cached.fetchedAt < CHART_CACHE_DURATION

\* Mutant: an entry already cached under the key is kept.
UpsertKeepsOld(cache, entry) ==
  IF \E i \in 1..Len(cache) : cache[i].key = entry.key
  THEN cache
  ELSE Append(cache, entry)

\* { ...cache, [key]: entry }: an existing key keeps its place, a new one is
\* added last.
Upsert(cache, entry) ==
  IF \E i \in 1..Len(cache) : cache[i].key = entry.key
  THEN [i \in 1..Len(cache) |-> IF cache[i].key = entry.key THEN entry ELSE cache[i]]
  ELSE Append(cache, entry)

\* Mutant: the sort puts the later of two keys of equal times first.
SortRankTiesReversed(cache, i) ==
  Cardinality({j \in 1..Len(cache) :
                 \/ cache[j].fetchedAt < cache[i].fetchedAt
                 \/ (cache[j].fetchedAt = cache[i].fetchedAt /\ j > i)})

\* Mutant: the keys are sorted newest first.
SortRankNewestFirst(cache, i) ==
  Cardinality({j \in 1..Len(cache) :
                 \/ cache[j].fetchedAt > cache[i].fetchedAt
                 \/ (cache[j].fetchedAt = cache[i].fetchedAt /\ j < i)})

\* The position of entry i once the keys are sorted by fetchedAt (the sort is
\* stable: equal times keep their order).
SortRank(cache, i) ==
  Cardinality({j \in 1..Len(cache) :
                 \/ cache[j].fetchedAt < cache[i].fetchedAt
                 \/ (cache[j].fetchedAt = cache[i].fetchedAt /\ j < i)})

\* Mutant: nothing is evicted.
EvictOldestNever(cache) == cache

\* Evict oldest entries if cache exceeds max size.
EvictOldest(cache) ==
  IF Len(cache) > MAX_CHART_CACHE_SIZE
  THEN LET excess == Len(cache) - MAX_CHART_CACHE_SIZE
           keep == {i \in 1..Len(cache) : SortRank(cache, i) >= excess}
           Nth(n) == CHOOSE i \in keep : Cardinality({j \in keep : j < i}) = n - 1
       IN [n \in 1..Cardinality(keep) |-> cache[Nth(n)]]
  ELSE cache

LoadingState(isLoading_, error_) == [isLoading |-> isLoading_, error |-> error_]

\* Mutant: the other keys are lost.
SetKeyDropsOthers(states, key, value) ==
  [k \in {key} |-> value]

\* { ...states, [key]: value }
SetKey(states, key, value) ==
  [k \in DOMAIN states \cup {key} |-> IF k = key THEN value ELSE states[k]]

EmptyMap == [x \in {} |-> x]

\* What getChartData returns.
ChartReturn(prices_, volumes_, error_) ==
  [prices |-> prices_, volumes |-> volumes_, error |-> error_]
NoReturn == ChartReturn(<<>>, <<>>, NoError)

(***************************************************************************)
(* State.                                                                  *)
(*   pc, call           where the call is and what was called              *)
(*   attempt, lastError the locals of fetchWithRetry                       *)
(*   timerArmed         the abort timer of fetchWithTimeout is pending     *)
(*   requests, sleeps, outcomes                                            *)
(*                      the HTTP requests issued, the backoff delays taken *)
(*                      and the outcome of each finished attempt (its      *)
(*                      status, 0 for a thrown exception)                  *)
(*   cause, body        what decided the result, and the body read         *)
(*   result             the ApiResult of the repository function           *)
(*   outcome, ret       how the called operation settled and, for          *)
(*                      getChartData, what it returned                     *)
(*   now                Date.now()                                         *)
(*   prices .. chartLoadingStates                                          *)
(*                      the fields of the price and chart stores           *)
(*   inflight, started  the price fetches of the store that have not       *)
(*                      settled yet, in the order they were started, and   *)
(*                      how many were started so far                       *)
(*   isPolling, pollingInterval, timers                                    *)
(*                      the polling store, its module-level interval       *)
(*                      handle (0 for null) and the interval timers alive  *)
(*   chartPending       the getChartData calls that have not settled yet   *)
(*   chartSeen          per cache key, since the last clearChartCache:     *)
(*                      when getChartData last went to the network,        *)
(*                      when such a call last ended in a success and when  *)
(*                      a call was last served from the cache              *)
(*   chartCalls         the getChartData calls made so far                 *)
(*   activeAlerts, triggeredAlerts                                         *)
(*                      the alert store                                    *)
(*   idsDrawn           how many ids generateId has produced so far        *)
(*   unviewedCount      the unviewedCount property of the alert store's    *)
(*                      state object: <<>> while it is still the getter of *)
(*                      the initial state, <<n>> once it holds a number    *)
(*   everTriggered      the ids of the alerts a TriggeredAlert was made    *)
(*                      for, in the order they were made                   *)
(*   effectPending      whether the root layout has yet to run its effect  *)
(*                      for the prices the price store holds               *)
(*   last               the operation that made the last step, the result  *)
(*                      a settled fetch had, and the state (or the part of *)
(*                      it a failure must keep) the step started from      *)
(***************************************************************************)
VARIABLES pc, call, attempt, lastError, timerArmed, requests, sleeps, outcomes,
          cause, body, result, outcome, ret, now,
          prices, isLoading, error, lastFetchTime, consecutiveFailures,
          chartCache, chartLoadingStates,
          inflight, started, isPolling, pollingInterval, timers, last,
          chartPending, chartSeen, chartCalls,
          activeAlerts, triggeredAlerts, idsDrawn, unviewedCount, everTriggered,
          effectPending

netVars == <<attempt, lastError, timerArmed, requests, sleeps, outcomes>>
priceVars == <<prices, isLoading, error, lastFetchTime, consecutiveFailures>>
chartVars == <<chartCache, chartLoadingStates>>
storeVars == <<priceVars, chartVars>>
callVars == <<pc, call, netVars, cause, body, result, outcome, ret>>
chartSess == <<chartPending, chartSeen, chartCalls>>
alertVars == <<activeAlerts, triggeredAlerts, idsDrawn, unviewedCount, everTriggered,
               effectPending>>
sessVars == <<inflight, started, isPolling, pollingInterval, timers, last, chartSess,
              alertVars>>
vars == <<callVars, now, storeVars, sessVars>>

Call(caller, fn, cryptoId, timeframe, cached) ==
  [caller |-> caller, fn |-> fn, cryptoId |-> cryptoId, timeframe |-> timeframe,
   cached |-> cached]
NoCall == Call("none", "none", "", "", NoEntry)

Cause(src, status, exc) == [src |-> src, status |-> status, exc |-> exc]
NoCause == Cause("none", 0, NoExc)

NoBody == [k |-> "none"]

NoEvent == [ev |-> "none"]

StartTime == 2 * ONE_HOUR_MS

\* A chart cache read back from storage when the app starts: nothing, or one
\* entry that is stale (exactly CHART_CACHE_DURATION old) or fresh.
SeedSeries == <<[timestamp |-> Num(StartTime - ONE_HOUR_MS), value |-> Num(1)]>>
HydratedCaches ==
  {<<>>,
   <<CacheEntry(CacheKey("bitcoin", "24h"), SeedSeries, <<>>, "24h",
                StartTime - CHART_CACHE_DURATION)>>,
   <<CacheEntry(CacheKey("bitcoin", "24h"), SeedSeries, <<>>, "24h", StartTime - 1)>>}

InitCommon ==
  /\ attempt = 0
  /\ lastError = NoError
  /\ timerArmed = FALSE
  /\ sleeps = <<>>
  /\ cause = NoCause
  /\ body = NoBody
  /\ result = NoResult
  /\ outcome = "pending"
  /\ ret = NoReturn
  /\ now = StartTime
  /\ prices = EmptyMap
  /\ isLoading = FALSE
  /\ error = NoError
  /\ lastFetchTime = <<>>
  /\ consecutiveFailures = 0
  /\ chartLoadingStates = EmptyMap
  /\ inflight = <<>>
  /\ started = 0
  /\ isPolling = FALSE
  /\ pollingInterval = 0
  /\ timers = {}
  /\ last = NoEvent
  /\ chartPending = <<>>
  /\ chartSeen = EmptyMap
  /\ chartCalls = 0
  /\ activeAlerts = <<>>
  /\ triggeredAlerts = <<>>
  /\ idsDrawn = 0
  /\ unviewedCount = <<>>
  /\ everTriggered = <<>>
  /\ effectPending = FALSE

Init ==
  /\ InitCommon
  /\ pc = "idle"
  /\ call = NoCall
  /\ requests = 0
  /\ outcomes = <<>>
  /\ chartCache \in HydratedCaches

(***************************************************************************)
(* The continuation of the caller once the repository function has         *)
(* settled with res.  The store operations have no try/catch of their own: *)
(* a rejection of the awaited call would reject them too.                  *)
(***************************************************************************)
\* Mutant: the entries of the result are merged into the previous map.
PriceMapMerged(data) ==
  [id \in DOMAIN prices \cup {data[i].cryptoId : i \in 1..Len(data)} |->
     IF \E i \in 1..Len(data) : data[i].cryptoId = id
     THEN data[CHOOSE i \in 1..Len(data) : data[i].cryptoId = id]
     ELSE prices[id]]

\* The price map built from the list of a successful result.
PriceMap(data) ==
  [id \in {data[i].cryptoId : i \in 1..Len(data)} |->
     data[CHOOSE i \in 1..Len(data) :
            /\ data[i].cryptoId = id
            /\ \A j \in 1..Len(data) : data[j].cryptoId = id => j <= i]]

\* Mutant: a failure sets the failure count to 1 instead of adding to it.
FetchAllPricesDoneNoCount(res) ==
  IF res.kind = "success"
  THEN /\ prices' = PriceMap(res.data)
       /\ isLoading' = FALSE
       /\ error' = NoError
       /\ lastFetchTime' = <<now>>
       /\ consecutiveFailures' = 0
  ELSE /\ isLoading' = FALSE
       /\ error' = res.error
       /\ consecutiveFailures' = 1
       /\ UNCHANGED <<prices, lastFetchTime>>

\* fetchAllPrices after `await fetchPrices()`.
FetchAllPricesDone(res) ==
  IF res.kind = "success"
  THEN /\ prices' = PriceMap(res.data)
       /\ isLoading' = FALSE
       /\ error' = NoError
       /\ lastFetchTime' = <<now>>
       /\ consecutiveFailures' = 0
  ELSE /\ isLoading' = FALSE
       /\ error' = res.error
       /\ consecutiveFailures' = consecutiveFailures + 1
       /\ UNCHANGED <<prices, lastFetchTime>>

\* refreshPrices after `await fetchPrices()`.
RefreshPricesDone(res) ==
  IF res.kind = "success"
  THEN /\ prices' = PriceMap(res.data)
       /\ isLoading' = FALSE
       /\ lastFetchTime' = <<now>>
       /\ UNCHANGED <<error, consecutiveFailures>>
  ELSE /\ isLoading' = FALSE
       /\ error' = res.error
       /\ UNCHANGED <<prices, lastFetchTime, consecutiveFailures>>

\* getChartData after `await fetchChartDataWithVolume(...)`.
GetChartDataDone(res) ==
  LET cacheKey == CacheKey(call.cryptoId, call.timeframe)
  IN IF res.kind = "success"
     THEN /\ chartCache' =
               EvictOldest(Upsert(chartCache,
                                  CacheEntry(cacheKey, res.data.prices, res.data.volumes,
                                             call.timeframe, now)))
          /\ chartLoadingStates' =
               SetKey(chartLoadingStates, cacheKey, LoadingState(FALSE, NoError))
          /\ ret' = ChartReturn(res.data.prices, res.data.volumes, NoError)
     ELSE /\ chartLoadingStates' =
               SetKey(chartLoadingStates, cacheKey, LoadingState(FALSE, res.error))
          /\ ret' = ChartReturn(call.cached.prices, call.cached.volumes, res.error)
          /\ UNCHANGED chartCache

Settle(res) ==
  IF res.kind = "rejected"
  THEN /\ outcome' = "rejected"
       /\ UNCHANGED <<ret, storeVars>>
  ELSE /\ outcome' = "resolved"
       /\ CASE call.caller = "fetchAllPrices" ->
                 FetchAllPricesDone(res) /\ UNCHANGED <<ret, chartVars>>
            [] call.caller = "refreshPrices" ->
                 RefreshPricesDone(res) /\ UNCHANGED <<ret, chartVars>>
            [] call.caller = "getChartData" ->
                 GetChartDataDone(res) /\ UNCHANGED priceVars
            [] OTHER -> UNCHANGED <<ret, storeVars>>

\* The repository function returns res, which c decided.
Finish(res, c) ==
  /\ pc' = "done"
  /\ result' = res
  /\ cause' = c
  /\ Settle(res)

(***************************************************************************)
(* Calls.  Each starts fetchWithRetry, whose first pass issues a request   *)
(* under a fresh abort timer (fetchWithTimeout).                           *)
(***************************************************************************)
Start(c) ==
  /\ pc = "idle"
  /\ call' = c
  /\ pc' = "request"
  /\ attempt' = 0
  /\ lastError' = NoError
  /\ requests' = requests + 1
  /\ timerArmed' = TRUE
  /\ UNCHANGED <<sleeps, outcomes, cause, body, result, outcome, ret, now, sessVars>>

CallFetchPrices ==
  /\ Start(Call("direct", "fetchPrices", "", "", NoEntry))
  /\ UNCHANGED storeVars

CallFetchSinglePrice ==
  \E id \in CallIds :
    /\ Start(Call("direct", "fetchSinglePrice", id, "", NoEntry))
    /\ UNCHANGED storeVars

CallFetchChartDataWithVolume ==
  \E id \in CallIds, tf \in ChartTimeframes :
    /\ Start(Call("direct", "fetchChartDataWithVolume", id, tf, NoEntry))
    /\ UNCHANGED storeVars

CallFetchAllPrices ==
  /\ Start(Call("fetchAllPrices", "fetchPrices", "", "", NoEntry))
  /\ isLoading' = IF consecutiveFailures = 0 THEN TRUE ELSE isLoading
  /\ UNCHANGED <<prices, error, lastFetchTime, consecutiveFailures, chartVars>>

CallRefreshPrices ==
  /\ Start(Call("refreshPrices", "fetchPrices", "", "", NoEntry))
  /\ isLoading' = TRUE
  /\ error' = NoError
  /\ consecutiveFailures' = 0
  /\ UNCHANGED <<prices, lastFetchTime, chartVars>>

\* A fresh entry is returned at once; otherwise the key is marked loading and
\* the chart is fetched.
CallGetChartData ==
  \E id \in CallIds, tf \in ChartTimeframes :
    LET cacheKey == CacheKey(id, tf)
        cached == Lookup(chartCache, cacheKey)
    IN IF IsFresh(cached, tf, now)
       THEN /\ pc = "idle"
            /\ pc' = "done"
            /\ call' = Call("getChartData", "none", id, tf, cached)
            /\ ret' = ChartReturn(cached.prices, cached.volumes, NoError)
            /\ outcome' = "resolved"
            /\ UNCHANGED <<netVars, cause, body, result, now, storeVars, sessVars>>
       ELSE /\ Start(Call("getChartData", "fetchChartDataWithVolume", id, tf, cached))
            /\ chartLoadingStates' =
                 SetKey(chartLoadingStates, cacheKey, LoadingState(TRUE, NoError))
            /\ UNCHANGED <<priceVars, chartCache>>

(***************************************************************************)
(* The network and the timers.                                             *)
(***************************************************************************)
Statuses == {200, 304, 400, 404, 429, 500}

\* await sleep(delay), then continue
Backoff ==
  /\ pc' = "sleep"
  /\ sleeps' = Append(sleeps, RetryDelay(attempt))
  /\ UNCHANGED <<cause, result, outcome, ret, storeVars>>

\* fetchWithRetry returns the response to the repository function, which
\* returns a failure unless the response is ok and otherwise reads the body.
ReturnResponse(status) ==
  /\ sleeps' = sleeps
  /\ IF ~Ok(status)
     THEN Finish(Failure(StatusError(call.fn, status)), Cause("status", status, NoExc))
     ELSE /\ pc' = "body"
          /\ UNCHANGED <<cause, result, outcome, ret, storeVars>>

\* fetch resolves with a response; the finally block clears the abort timer.
Respond ==
  \E status \in Statuses :
    /\ pc = "request"
    /\ timerArmed' = FALSE
    /\ outcomes' = Append(outcomes, status)
    /\ UNCHANGED <<call, attempt, requests, body, now, sessVars>>
    /\ IF RetryDecision(status, attempt) = "retry"
       THEN lastError' = lastError /\ Backoff
       ELSE lastError' = NoError /\ ReturnResponse(status)

\* fetch rejects with e: the catch branch of fetchWithRetry.
Throws(e) ==
  /\ pc = "request"
  /\ timerArmed' = FALSE
  /\ outcomes' = Append(outcomes, 0)
  /\ lastError' = parseError(e, NoResponse)
  /\ UNCHANGED <<call, attempt, requests, body, sessVars>>
  /\ IF ShouldRethrow(parseError(e, NoResponse), attempt)
     THEN sleeps' = sleeps /\ Finish(CatchBlock(e), Cause("request", 0, e))
     ELSE Backoff

RequestThrows ==
  \E e \in Exceptions : Throws(e) /\ now' = now

\* The abort timer fires REQUEST_TIMEOUT after the request was issued:
\* controller.abort() makes fetch reject with an AbortError.
Timeout ==
  /\ timerArmed
  /\ now' = now + REQUEST_TIMEOUT
  /\ Throws(AbortError)

\* The backoff delay has passed: the next pass of the loop issues a request.
SleepDone ==
  /\ pc = "sleep"
  /\ now' = now + sleeps[Len(sleeps)]
  /\ attempt' = attempt + 1
  /\ requests' = requests + 1
  /\ timerArmed' = TRUE
  /\ pc' = "request"
  /\ UNCHANGED <<call, lastError, sleeps, outcomes, cause, body, result, outcome, ret,
                 storeVars, sessVars>>

\* What the repository function makes of the body `data`.
BodyResult(data) ==
  CASE call.fn = "fetchPrices" -> fetchPricesBody(data, now)
    [] call.fn = "fetchSinglePrice" -> fetchSinglePriceBody(data, call.cryptoId, now)
    [] OTHER -> fetchChartBody(data, call.timeframe, now)

NetBodies(fn) ==
  IF fn = "fetchChartDataWithVolume"
  THEN ChartBodies(NetChartPoints(now), NetChartPoints(now), MaxNetPoints, MaxNetPoints)
  ELSE PriceBodies(NetPriceEntries, MaxNetEntries)

JsonResolved(data) ==
  /\ pc = "body"
  /\ Finish(BodyResult(data), Cause("body", 200, NoExc))
  /\ UNCHANGED <<call, netVars, now, sessVars>>

\* response.json() resolves.  (It may also never settle: no timer is pending
\* while the body is read.)
BodyJson ==
  /\ pc = "body"
  /\ \E data \in NetBodies(call.fn) : JsonResolved(data) /\ body' = body

\* response.json() rejects with e.
BodyThrows ==
  \E e \in Exceptions :
    /\ pc = "body"
    /\ Finish(CatchBlock(e), Cause("bodyread", 200, e))
    /\ UNCHANGED <<call, netVars, now, body, sessVars>>

Next ==
  \/ CallFetchPrices
  \/ CallFetchSinglePrice
  \/ CallFetchChartDataWithVolume
  \/ CallFetchAllPrices
  \/ CallRefreshPrices
  \/ CallGetChartData
  \/ Respond
  \/ RequestThrows
  \/ Timeout
  \/ SleepDone
  \/ BodyJson
  \/ BodyThrows

Spec == Init /\ [][Next]_vars

\* What the timers of the code guarantee to happen: the abort timer of a
\* pending request fires and a backoff sleep ends.  Nothing makes the server
\* answer, and no timer is pending while a body is read.
SpecLive == Spec /\ WF_vars(Timeout) /\ WF_vars(SleepDone)

(***************************************************************************)
(* SpecBody: the repository functions as functions of the body.  It starts *)
(* where a first request has been answered 200 and response.json() is      *)
(* awaited, and lets the body range over the larger sets; the body read is *)
(* recorded in `body`.                                                     *)
(***************************************************************************)
InitBody ==
  /\ InitCommon
  /\ pc = "body"
  /\ call \in {Call("direct", "fetchPrices", "", "", NoEntry)}
               \cup {Call("direct", "fetchSinglePrice", id, "", NoEntry) : id \in CallIds}
               \cup {Call("direct", "fetchChartDataWithVolume", id, tf, NoEntry) :
                       id \in CallIds, tf \in ChartTimeframes}
  /\ requests = 1
  /\ outcomes = <<200>>
  /\ chartCache = <<>>

ReadPriceBody ==
  /\ pc = "body"
  /\ call.fn = "fetchPrices"
  /\ \E data \in PriceBodies(PriceEntries, MaxEntries) : JsonResolved(data) /\ body' = data

ReadSinglePriceBody ==
  /\ pc = "body"
  /\ call.fn = "fetchSinglePrice"
  /\ \E data \in PriceBodies(PriceEntries, MaxEntries) : JsonResolved(data) /\ body' = data

ReadChartBody ==
  /\ pc = "body"
  /\ call.fn = "fetchChartDataWithVolume"
  /\ \E data \in ChartBodies(ChartPoints(now), VolumePoints(now), MaxPoints, MaxVolPoints) :
       JsonResolved(data) /\ body' = data

NextBody == ReadPriceBody \/ ReadSinglePriceBody \/ ReadChartBody

SpecBody == InitBody /\ [][NextBody]_vars

(***************************************************************************)
(* SpecStore: the price store and the polling store over many calls that   *)
(* may overlap.  `await fetchPrices()` settles with any of the results the *)
(* repository function can return (a success or a failure from a body, a   *)
(* failure from an exception); calls in flight settle in any order.  Time  *)
(* passes in poll intervals.                                               *)
(***************************************************************************)
MaxStarted == 3
MaxTicks == 2
MaxStoreEntries == 1

\* The entries of the bodies the store is fed.
StorePriceEntries == [id : {"bitcoin", "ethereum"}, isNull : {FALSE}, usd : {Num(2)}]

\* The exceptions the store is fed: a connectivity failure and a timeout.  (A
\* body without a valid entry gives the failure that is neither.)
StoreExceptions == {TypeErrorExc, AbortError}

\* What `await fetchPrices()` can yield at time t.
FetchPricesResults(t) ==
  {fetchPricesBody(data, t) : data \in PriceBodies(StorePriceEntries, MaxStoreEntries)}
    \cup {CatchBlock(e) : e \in StoreExceptions}

\* The state an operation started from.
PreState ==
  [prices |-> prices, isLoading |-> isLoading, error |-> error,
   lastFetchTime |-> lastFetchTime, consecutiveFailures |-> consecutiveFailures,
   inflight |-> inflight, started |-> started,
   isPolling |-> isPolling, pollingInterval |-> pollingInterval, timers |-> timers]

\* What a failed fetch must leave alone, and the failure count it adds to.
PreData ==
  [prices |-> prices, lastFetchTime |-> lastFetchTime,
   consecutiveFailures |-> consecutiveFailures]

NoPre == [none |-> TRUE]

Event(ev, op, res, pre) == [ev |-> ev, op |-> op, res |-> res, pre |-> pre]

InitStore ==
  /\ InitCommon
  /\ pc = "idle"
  /\ call = NoCall
  /\ requests = 0
  /\ outcomes = <<>>
  /\ chartCache = <<>>

\* Mutant: the loading flag is never raised.
BeginFetchAllPricesNeverLoading(n, src) ==
  /\ isLoading' = isLoading
  /\ inflight' = inflight \o [i \in 1..n |->
                                [op |-> "fetchAllPrices", src |-> src]]
  /\ started' = started + n
  /\ UNCHANGED <<prices, error, lastFetchTime, consecutiveFailures>>

\* Mutant: the loading flag is raised whatever the failure count.
BeginFetchAllPricesAlwaysLoading(n, src) ==
  /\ isLoading' = IF n > 0 THEN TRUE ELSE isLoading
  /\ inflight' = inflight \o [i \in 1..n |->
                                [op |-> "fetchAllPrices", src |-> src]]
  /\ started' = started + n
  /\ UNCHANGED <<prices, error, lastFetchTime, consecutiveFailures>>

\* n calls of fetchAllPrices up to their `await fetchPrices()`.
BeginFetchAllPrices(n, src) ==
  /\ isLoading' = IF n > 0 /\ consecutiveFailures = 0 THEN TRUE ELSE isLoading
  /\ inflight' = inflight \o [i \in 1..n |->
                                [op |-> "fetchAllPrices", src |-> src]]
  /\ started' = started + n
  /\ UNCHANGED <<prices, error, lastFetchTime, consecutiveFailures>>

\* fetchAllPrices(), called by the application, up to its await.
FetchAllPrices ==
  /\ started < MaxStarted
  /\ BeginFetchAllPrices(1, "user")
  /\ last' = Event("start", "fetchAllPrices", NoResult, PreState)
  /\ UNCHANGED <<callVars, now, chartVars, chartSess, alertVars, isPolling, pollingInterval, timers>>

\* Mutant: refreshPrices keeps the failure count.
RefreshPricesKeepsCount ==
  /\ started < MaxStarted
  /\ isLoading' = TRUE
  /\ error' = NoError
  /\ inflight' = Append(inflight, [op |-> "refreshPrices", src |-> "user"])
  /\ started' = started + 1
  /\ last' = Event("start", "refreshPrices", NoResult, PreState)
  /\ UNCHANGED <<callVars, now, prices, lastFetchTime, consecutiveFailures, chartVars, chartSess, alertVars,
                 isPolling, pollingInterval, timers>>

\* refreshPrices() up to its await.
RefreshPrices ==
  /\ started < MaxStarted
  /\ isLoading' = TRUE
  /\ error' = NoError
  /\ consecutiveFailures' = 0
  /\ inflight' = Append(inflight, [op |-> "refreshPrices", src |-> "user"])
  /\ started' = started + 1
  /\ last' = Event("start", "refreshPrices", NoResult, PreState)
  /\ UNCHANGED <<callVars, now, prices, lastFetchTime, chartVars, chartSess, alertVars,
                 isPolling, pollingInterval, timers>>

RemoveAt(q, i) == [j \in 1..(Len(q) - 1) |-> IF j < i THEN q[j] ELSE q[j + 1]]

\* The awaited fetchPrices() of one call in flight settles and the call runs
\* to its end.  (ahead: how many calls started before it are still in flight.)
PriceSettle ==
  \E i \in 1..Len(inflight) :
    \E res \in FetchPricesResults(now) :
      /\ IF inflight[i].op = "fetchAllPrices"
         THEN FetchAllPricesDone(res)
         ELSE RefreshPricesDone(res)
      /\ inflight' = RemoveAt(inflight, i)
      /\ last' = Event("settle", inflight[i].op, res,
                        IF res.kind = "success" THEN [ahead |-> i - 1] ELSE PreData)
      /\ UNCHANGED <<callVars, now, chartVars, chartSess, alertVars, started, isPolling, pollingInterval, timers>>

clearError ==
  /\ error' = NoError
  /\ last' = Event("clearError", "clearError", NoResult, NoPre)
  /\ UNCHANGED <<callVars, now, prices, isLoading, lastFetchTime, consecutiveFailures,
                 chartVars, chartSess, alertVars, inflight, started, isPolling, pollingInterval, timers>>

\* setInterval returns a handle no live timer has.
NewTimer == CHOOSE t \in 1..(Cardinality(timers) + 1) : t \notin timers

\* Mutant: startPolling fetches again when polling is already on.
startPollingRefetches ==
  /\ last' = Event("startPolling", "startPolling", NoResult, PreState)
  /\ UNCHANGED <<callVars, now, chartVars, chartSess, alertVars>>
  /\ IF isPolling
     THEN /\ started < MaxStarted
          /\ BeginFetchAllPrices(1, "immediate")
          /\ UNCHANGED <<isPolling, pollingInterval, timers>>
     ELSE /\ started < MaxStarted
          /\ isPolling' = TRUE
          /\ BeginFetchAllPrices(1, "immediate")
          /\ pollingInterval' = NewTimer
          /\ timers' = timers \cup {NewTimer}

startPolling ==
  /\ last' = Event("startPolling", "startPolling", NoResult, PreState)
  /\ UNCHANGED <<callVars, now, chartVars, chartSess, alertVars>>
  /\ IF isPolling
     THEN UNCHANGED <<priceVars, inflight, started, isPolling, pollingInterval, timers>>
     ELSE /\ started < MaxStarted
          /\ isPolling' = TRUE
          /\ BeginFetchAllPrices(1, "immediate")
          /\ pollingInterval' = NewTimer
          /\ timers' = timers \cup {NewTimer}

\* Mutant: stopPolling forgets the handle without clearing the interval.
stopPollingLeaks ==
  /\ last' = Event("stopPolling", "stopPolling", NoResult, PreState)
  /\ pollingInterval' = 0
  /\ timers' = timers
  /\ isPolling' = FALSE
  /\ UNCHANGED <<callVars, now, storeVars, inflight, started, chartSess, alertVars>>

stopPolling ==
  /\ last' = Event("stopPolling", "stopPolling", NoResult, PreState)
  /\ IF pollingInterval # 0
     THEN timers' = timers \ {pollingInterval} /\ pollingInterval' = 0
     ELSE UNCHANGED <<timers, pollingInterval>>
  /\ isPolling' = FALSE
  /\ UNCHANGED <<callVars, now, storeVars, inflight, started, chartSess, alertVars>>

\* Mutant: the interval callback runs twice per interval.
TickTwice ==
  /\ now < StartTime + MaxTicks * PRICE_POLL_INTERVAL
  /\ started + 2 * Cardinality(timers) <= MaxStarted
  /\ now' = now + PRICE_POLL_INTERVAL
  /\ BeginFetchAllPrices(2 * Cardinality(timers), "timer")
  /\ last' = Event("tick", "tick", NoResult, PreState)
  /\ UNCHANGED <<callVars, chartVars, chartSess, alertVars, isPolling, pollingInterval, timers>>

\* A poll interval passes: the callback of every live interval timer runs.
Tick ==
  /\ now < StartTime + MaxTicks * PRICE_POLL_INTERVAL
  /\ started + Cardinality(timers) <= MaxStarted
  /\ now' = now + PRICE_POLL_INTERVAL
  /\ BeginFetchAllPrices(Cardinality(timers), "timer")
  /\ last' = Event("tick", "tick", NoResult, PreState)
  /\ UNCHANGED <<callVars, chartVars, chartSess, alertVars, isPolling, pollingInterval, timers>>

\* Mutant: no failure count is needed to be offline.
useNetworkStatusNoThreshold ==
  IF isLoading /\ lastFetchTime = <<>> THEN "checking"
  ELSE IF error # NoError /\ error.type \in {"NETWORK", "TIMEOUT"}
       THEN "offline"
       ELSE "online"

\* The connection status the application derives from the price store.
useNetworkStatus ==
  IF isLoading /\ lastFetchTime = <<>> THEN "checking"
  ELSE IF consecutiveFailures >= 2 /\ error # NoError
            /\ error.type \in {"NETWORK", "TIMEOUT"}
       THEN "offline"
       ELSE "online"

NextStore ==
  \/ FetchAllPrices
  \/ RefreshPrices
  \/ PriceSettle
  \/ clearError
  \/ startPolling
  \/ stopPolling
  \/ Tick

SpecStore == InitStore /\ [][NextStore]_vars

(***************************************************************************)
(* SpecChart: the chart store over many getChartData calls that may        *)
(* overlap, with clearChartCache.  `await fetchChartDataWithVolume(...)`   *)
(* settles with any of the results the repository function can return;     *)
(* calls in flight settle in any order.  Time passes in halves of the      *)
(* cache duration, so that an entry is fresh for two steps and stale from  *)
(* exactly CHART_CACHE_DURATION on.                                        *)
(***************************************************************************)
MaxChartCalls == 2
MaxChartSteps == 2

ChartStep == CHART_CACHE_DURATION \div 2

\* The bodies the chart store is fed, one for each kind of result: a series
\* with and without volumes, no valid point, no prices, and a total_volumes
\* that makes the processing throw.
StoreChartPoint == Point(Num(StartTime), Num(2))
StoreChartBodies ==
  {[k |-> "object", prices |-> <<StoreChartPoint>>, vk |-> "array",
    volumes |-> <<StoreChartPoint>>],
   [k |-> "object", prices |-> <<StoreChartPoint>>, vk |-> "missing", volumes |-> <<>>],
   [k |-> "object", prices |-> <<>>, vk |-> "array", volumes |-> <<>>],
   [k |-> "noprices", prices |-> <<>>, vk |-> "missing", volumes |-> <<>>],
   [k |-> "object", prices |-> <<StoreChartPoint>>, vk |-> "nonarray", volumes |-> <<>>]}

\* What `await fetchChartDataWithVolume(id, timeframe)` can yield at time t.
FetchChartResults(timeframe, t) ==
  {fetchChartBody(data, timeframe, t) : data \in StoreChartBodies}

\* The chart store as an operation finds it.
ChartPre ==
  [chartCache |-> chartCache, chartLoadingStates |-> chartLoadingStates,
   chartPending |-> chartPending, chartSeen |-> chartSeen]

\* Never: the time of something that has not happened.
Never == 0 - 1

\* chartSeen[key], for a key that was never asked for as well.
Seen(key) ==
  IF key \in DOMAIN chartSeen
  THEN chartSeen[key]
  ELSE [missAt |-> Never, okAt |-> Never, hitAt |-> Never]

\* The names of the instruments of a cache read back from storage at capacity.
FillerIds ==
  <<"crypto0", "crypto1", "crypto2", "crypto3", "crypto4", "crypto5", "crypto6",
    "crypto7", "crypto8", "crypto9", "crypto10", "crypto11", "crypto12", "crypto13",
    "crypto14", "crypto15", "crypto16", "crypto17", "crypto18", "crypto19">>

\* A cache read back from storage at capacity: the entry of bitcoin-24h, in
\* second place, was fetched before all others and is still fresh.
FullCache ==
  [i \in 1..MAX_CHART_CACHE_SIZE |->
     IF i = 2
     THEN CacheEntry(CacheKey("bitcoin", "24h"), SeedSeries, <<>>, "24h", StartTime - 2)
     ELSE CacheEntry(CacheKey(FillerIds[i], "24h"), SeedSeries, <<>>, "24h",
                     StartTime - 1)]

\* A cache read back from storage at capacity in the millisecond its entries
\* were fetched in.
TiedCache ==
  [i \in 1..MAX_CHART_CACHE_SIZE |->
     CacheEntry(CacheKey(FillerIds[i], "24h"), SeedSeries, <<>>, "24h", StartTime)]

InitChart ==
  /\ InitCommon
  /\ pc = "idle"
  /\ call = NoCall
  /\ requests = 0
  /\ outcomes = <<>>
  /\ chartCache \in HydratedCaches \cup {FullCache, TiedCache}

\* getChartData(id, tf) up to its return (fresh entry) or its await.
GetChartData ==
  \E id \in CallIds, tf \in ChartTimeframes :
    LET cacheKey == CacheKey(id, tf)
        cached == Lookup(chartCache, cacheKey)
    IN /\ chartCalls < MaxChartCalls
       /\ chartCalls' = chartCalls + 1
       /\ IF IsFresh(cached, tf, now)
          THEN /\ ret' = ChartReturn(cached.prices, cached.volumes, NoError)
               /\ chartSeen' = SetKey(chartSeen, cacheKey,
                                      [Seen(cacheKey) EXCEPT !.hitAt = now])
               /\ last' = Event("chartHit", cacheKey, NoResult, ChartPre)
               /\ UNCHANGED <<chartVars, chartPending>>
          ELSE /\ chartLoadingStates' =
                    SetKey(chartLoadingStates, cacheKey, LoadingState(TRUE, NoError))
               /\ chartPending' =
                    Append(chartPending,
                           [key |-> cacheKey, cryptoId |-> id, timeframe |-> tf,
                            cached |-> cached])
               /\ chartSeen' = SetKey(chartSeen, cacheKey,
                                      [Seen(cacheKey) EXCEPT !.missAt = now])
               /\ last' = Event("chartStart", cacheKey, NoResult, ChartPre)
               /\ UNCHANGED <<ret, chartCache>>
       /\ UNCHANGED <<pc, call, netVars, cause, body, result, outcome, now, priceVars, alertVars,
                      inflight, started, isPolling, pollingInterval, timers>>

\* The awaited fetchChartDataWithVolume of one call in flight settles and the
\* call runs to its end.
ChartSettle ==
  \E i \in 1..Len(chartPending) :
    LET c == chartPending[i]
    IN \E res \in FetchChartResults(c.timeframe, now) :
         /\ IF res.kind = "success"
            THEN /\ chartCache' =
                      EvictOldest(Upsert(chartCache,
                                         CacheEntry(c.key, res.data.prices, res.data.volumes,
                                                    c.timeframe, now)))
                 /\ chartLoadingStates' =
                      SetKey(chartLoadingStates, c.key, LoadingState(FALSE, NoError))
                 /\ ret' = ChartReturn(res.data.prices, res.data.volumes, NoError)
            ELSE /\ chartLoadingStates' =
                      SetKey(chartLoadingStates, c.key, LoadingState(FALSE, res.error))
                 /\ ret' = ChartReturn(c.cached.prices, c.cached.volumes, res.error)
                 /\ UNCHANGED chartCache
         /\ chartPending' = RemoveAt(chartPending, i)
         /\ chartSeen' = IF res.kind = "success"
                          THEN SetKey(chartSeen, c.key, [Seen(c.key) EXCEPT !.okAt = now])
                          ELSE chartSeen
         /\ last' = Event("chartSettle", c.key, res, ChartPre)
         /\ UNCHANGED <<pc, call, netVars, cause, body, result, outcome, now, priceVars, alertVars,
                        inflight, started, isPolling, pollingInterval, timers, chartCalls>>

clearChartCache ==
  /\ chartCache' = <<>>
  /\ chartLoadingStates' = EmptyMap
  /\ chartSeen' = EmptyMap
  /\ last' = Event("clearChartCache", <<>>, NoResult, NoPre)
  /\ UNCHANGED <<callVars, now, priceVars, alertVars, inflight, started, isPolling, pollingInterval,
                 timers, chartPending, chartCalls>>

\* Half a cache duration passes.
ChartTimePasses ==
  /\ now < StartTime + MaxChartSteps * ChartStep
  /\ now' = now + ChartStep
  /\ last' = Event("timePasses", <<>>, NoResult, NoPre)
  /\ UNCHANGED <<callVars, storeVars, alertVars, inflight, started, isPolling, pollingInterval,
                 timers, chartSess>>

NextChart ==
  \/ GetChartData
  \/ ChartSettle
  \/ clearChartCache
  \/ ChartTimePasses

SpecChart == InitChart /\ [][NextChart]_vars

(***************************************************************************)
(* The alert store: addAlert, removeAlert, updateAlert and evaluateAlerts  *)
(* in any order.  Every operation is synchronous, so each is one step.     *)
(* An id is `${Date.now()}-${random part}`; the random part is modelled by *)
(* the number of the draw, that is, Math.random() is taken not to repeat   *)
(* a value.                                                                *)
(***************************************************************************)
MaxAlertIds == 3

generateId(t, n) == <<t, n>>

\* What addAlert is called with.
AlertData ==
  [cryptoId : {"bitcoin", "ethereum"}, type : {"above", "below"}, threshold : {2}]

\* What updateAlert is called with: any part of { type, threshold }.
AlertUpdates ==
  {EmptyMap, [type |-> "below"], [threshold |-> 3]}

\* The price maps evaluateAlerts is called with.
SnapshotPrices ==
  {[id \in ids |-> PriceData(id, Num(IF id = "bitcoin" THEN p ELSE 2), StartTime)] :
     ids \in {{}, {"ethereum"}, {"bitcoin", "ethereum"}}, p \in 1..3}

\* The ids the caller of removeAlert and updateAlert can hold.
KnownIds ==
  {activeAlerts[i].id : i \in 1..Len(activeAlerts)}
    \cup {triggeredAlerts[i].alert.id : i \in 1..Len(triggeredAlerts)}

\* The alert store as an operation finds it.
AlertPre == [activeAlerts |-> activeAlerts, triggeredAlerts |-> triggeredAlerts]

\* Array.prototype.filter: the elements at the positions of keep, in order.
KeepAt(seq, keep) ==
  LET Nth(n) == CHOOSE i \in keep : Cardinality({j \in keep : j < i}) = n - 1
  IN [n \in 1..Cardinality(keep) |-> seq[Nth(n)]]

\* Mutant: a price equal to the threshold does not trigger.
IsTriggeredStrict(alert, snapshot) ==
  /\ alert.cryptoId \in DOMAIN snapshot
  /\ \/ alert.type = "above" /\ snapshot[alert.cryptoId].price.v > alert.threshold
     \/ alert.type = "below" /\ snapshot[alert.cryptoId].price.v < alert.threshold

\* isTriggered of evaluateAlerts for one alert, false without price data.
IsTriggered(alert, snapshot) ==
  /\ alert.cryptoId \in DOMAIN snapshot
  /\ \/ alert.type = "above" /\ snapshot[alert.cryptoId].price.v >= alert.threshold
     \/ alert.type = "below" /\ snapshot[alert.cryptoId].price.v <= alert.threshold

\* Mutant: the triggered alert is born viewed.
TriggeredAlertViewed(id, alert, currentPrice, t) ==
  [id |-> id, alert |-> alert, triggeredPrice |-> currentPrice, triggeredAt |-> t,
   viewed |-> TRUE]

\* The TriggeredAlert pushed to newTriggered.
TriggeredAlertOf(id, alert, currentPrice, t) ==
  [id |-> id, alert |-> alert, triggeredPrice |-> currentPrice, triggeredAt |-> t,
   viewed |-> FALSE]

\* The triggered alerts nobody has looked at: filter((t) => !t.viewed).
Unviewed(list) == {i \in 1..Len(list) : ~list[i].viewed}

\* What a set of the alert store leaves in the unviewedCount property.  The
\* store merges the old state object and the partial into a new object, which
\* reads the getter once, on the state the set started from, and keeps the
\* number it returned as a plain property of every later state.
SetState ==
  IF unviewedCount = <<>> THEN <<Cardinality(Unviewed(triggeredAlerts))>>
  ELSE unviewedCount

\* Reading unviewedCount from the state of the store.
ReadUnviewedCount ==
  IF unviewedCount = <<>> THEN Cardinality(Unviewed(triggeredAlerts))
  ELSE unviewedCount[1]

\* useUnviewedAlertCount: the selector counts on the state it is given.
useUnviewedAlertCount == Cardinality(Unviewed(triggeredAlerts))

InitAlert ==
  /\ InitCommon
  /\ pc = "idle"
  /\ call = NoCall
  /\ requests = 0
  /\ outcomes = <<>>
  /\ chartCache = <<>>

\* Mutant: the alert is added without removing the one of the same crypto.
addAlertStacks ==
  \E alertData \in AlertData :
    LET id == generateId(now, idsDrawn + 1)
        alert == [id |-> id, cryptoId |-> alertData.cryptoId, type |-> alertData.type,
                  threshold |-> alertData.threshold, createdAt |-> now]
    IN /\ idsDrawn < MaxAlertIds
       /\ idsDrawn' = idsDrawn + 1
       /\ activeAlerts' = Append(activeAlerts, alert)
       /\ unviewedCount' = SetState
       /\ last' = Event("addAlert", alertData, id, AlertPre)
       /\ UNCHANGED <<callVars, now, storeVars, inflight, started, isPolling,
                      pollingInterval, timers, chartSess, triggeredAlerts,
                      everTriggered, effectPending>>

addAlert ==
  \E alertData \in AlertData :
    LET id == generateId(now, idsDrawn + 1)
        alert == [id |-> id, cryptoId |-> alertData.cryptoId, type |-> alertData.type,
                  threshold |-> alertData.threshold, createdAt |-> now]
    IN /\ idsDrawn < MaxAlertIds
       /\ idsDrawn' = idsDrawn + 1
       /\ activeAlerts' =
            Append(KeepAt(activeAlerts,
                          {i \in 1..Len(activeAlerts) :
                             activeAlerts[i].cryptoId # alertData.cryptoId}),
                   alert)
       /\ unviewedCount' = SetState
       /\ last' = Event("addAlert", alertData, id, AlertPre)
       /\ UNCHANGED <<callVars, now, storeVars, inflight, started, isPolling,
                      pollingInterval, timers, chartSess, triggeredAlerts,
                      everTriggered, effectPending>>

removeAlert ==
  \E alertId \in KnownIds :
    /\ activeAlerts' =
         KeepAt(activeAlerts,
                {i \in 1..Len(activeAlerts) : activeAlerts[i].id # alertId})
    /\ unviewedCount' = SetState
    /\ last' = Event("removeAlert", NoResult, NoResult,
                     [triggeredAlerts |-> triggeredAlerts])
    /\ UNCHANGED <<callVars, now, storeVars, inflight, started, isPolling,
                   pollingInterval, timers, chartSess, triggeredAlerts, idsDrawn,
                   everTriggered, effectPending>>

\* { ...a, ...updates }
ApplyUpdates(a, updates) ==
  [a EXCEPT !.type = IF "type" \in DOMAIN updates THEN updates.type ELSE @,
            !.threshold = IF "threshold" \in DOMAIN updates THEN updates.threshold ELSE @]

updateAlert ==
  \E alertId \in KnownIds, updates \in AlertUpdates :
    /\ activeAlerts' =
         [i \in 1..Len(activeAlerts) |->
            IF activeAlerts[i].id = alertId
            THEN ApplyUpdates(activeAlerts[i], updates)
            ELSE activeAlerts[i]]
    /\ unviewedCount' = SetState
    /\ last' = Event("updateAlert", NoResult, NoResult,
                     [triggeredAlerts |-> triggeredAlerts])
    /\ UNCHANGED <<callVars, now, storeVars, inflight, started, isPolling,
                   pollingInterval, timers, chartSess, triggeredAlerts, idsDrawn,
                   everTriggered, effectPending>>

\* Mutant: a triggering evaluation empties the active list.
evaluateAlertsClearsActive ==
  \E snapshot \in SnapshotPrices :
    LET triggered == {i \in 1..Len(activeAlerts) : IsTriggered(activeAlerts[i], snapshot)}
        triggeredIds == {activeAlerts[i].id : i \in triggered}
        hit == KeepAt(activeAlerts, triggered)
        newTriggered ==
          [n \in 1..Len(hit) |->
             TriggeredAlertOf(generateId(now, idsDrawn + n), hit[n],
                              snapshot[hit[n].cryptoId].price.v, now)]
    IN /\ IF triggered # {}
          THEN /\ activeAlerts' = <<>>
               /\ triggeredAlerts' = newTriggered \o triggeredAlerts
               /\ idsDrawn' = idsDrawn + Len(hit)
               /\ unviewedCount' = SetState
               /\ everTriggered' = everTriggered \o [n \in 1..Len(hit) |-> hit[n].id]
          ELSE UNCHANGED <<activeAlerts, triggeredAlerts, idsDrawn, unviewedCount,
                           everTriggered>>
       /\ last' = Event("evaluateAlerts", snapshot, NoResult, AlertPre)
       /\ UNCHANGED <<callVars, now, storeVars, inflight, started, isPolling,
                      pollingInterval, timers, chartSess, effectPending>>

\* Mutant: the alerts that triggered stay in the active list.
evaluateAlertsOnKeepsActive(snapshot) ==
    LET triggered == {i \in 1..Len(activeAlerts) : IsTriggered(activeAlerts[i], snapshot)}
        hit == KeepAt(activeAlerts, triggered)
        newTriggered ==
          [n \in 1..Len(hit) |->
             TriggeredAlertOf(generateId(now, idsDrawn + n), hit[n],
                              snapshot[hit[n].cryptoId].price.v, now)]
    IN /\ IF triggered # {}
          THEN /\ triggeredAlerts' = newTriggered \o triggeredAlerts
               /\ idsDrawn' = idsDrawn + Len(hit)
               /\ unviewedCount' = SetState
               /\ everTriggered' = everTriggered \o [n \in 1..Len(hit) |-> hit[n].id]
               /\ UNCHANGED activeAlerts
          ELSE UNCHANGED <<activeAlerts, triggeredAlerts, idsDrawn, unviewedCount,
                           everTriggered>>
       /\ last' = Event("evaluateAlerts", snapshot, NoResult, AlertPre)

\* One call of evaluateAlerts, on the prices it is given.
evaluateAlertsOn(snapshot) ==
    LET triggered == {i \in 1..Len(activeAlerts) : IsTriggered(activeAlerts[i], snapshot)}
        triggeredIds == {activeAlerts[i].id : i \in triggered}
        hit == KeepAt(activeAlerts, triggered)
        newTriggered ==
          [n \in 1..Len(hit) |->
             TriggeredAlertOf(generateId(now, idsDrawn + n), hit[n],
                              snapshot[hit[n].cryptoId].price.v, now)]
    IN /\ IF triggered # {}
          THEN /\ activeAlerts' =
                    KeepAt(activeAlerts,
                           {i \in 1..Len(activeAlerts) :
                              activeAlerts[i].id \notin triggeredIds})
               /\ triggeredAlerts' = newTriggered \o triggeredAlerts
               /\ idsDrawn' = idsDrawn + Len(hit)
               /\ unviewedCount' = SetState
               /\ everTriggered' = everTriggered \o [n \in 1..Len(hit) |-> hit[n].id]
          ELSE UNCHANGED <<activeAlerts, triggeredAlerts, idsDrawn, unviewedCount,
                           everTriggered>>
       /\ last' = Event("evaluateAlerts", snapshot, NoResult, AlertPre)

evaluateAlerts ==
  \E snapshot \in SnapshotPrices :
    /\ evaluateAlertsOn(snapshot)
    /\ UNCHANGED <<callVars, now, storeVars, inflight, started, isPolling,
                   pollingInterval, timers, chartSess, effectPending>>

\* Mutant: marking flips the flag instead of setting it.
markAllAsViewedToggles ==
  /\ triggeredAlerts' =
       [i \in 1..Len(triggeredAlerts) |->
          [triggeredAlerts[i] EXCEPT !.viewed = ~@]]
  /\ unviewedCount' = SetState
  /\ last' = Event("markAllAsViewed", NoResult, NoResult, AlertPre)
  /\ UNCHANGED <<callVars, now, storeVars, inflight, started, isPolling,
                 pollingInterval, timers, chartSess, activeAlerts, idsDrawn,
                 everTriggered, effectPending>>

markAllAsViewed ==
  /\ triggeredAlerts' =
       [i \in 1..Len(triggeredAlerts) |->
          [triggeredAlerts[i] EXCEPT !.viewed = TRUE]]
  /\ unviewedCount' = SetState
  /\ last' = Event("markAllAsViewed", NoResult, NoResult, AlertPre)
  /\ UNCHANGED <<callVars, now, storeVars, inflight, started, isPolling,
                 pollingInterval, timers, chartSess, activeAlerts, idsDrawn,
                 everTriggered, effectPending>>

clearTriggeredAlerts ==
  /\ triggeredAlerts' = <<>>
  /\ unviewedCount' = SetState
  /\ last' = Event("clearTriggeredAlerts", NoResult, NoResult, NoPre)
  /\ UNCHANGED <<callVars, now, storeVars, inflight, started, isPolling,
                 pollingInterval, timers, chartSess, activeAlerts, idsDrawn,
                 everTriggered, effectPending>>

NextAlert ==
  \/ addAlert
  \/ removeAlert
  \/ updateAlert
  \/ evaluateAlerts
  \/ markAllAsViewed
  \/ clearTriggeredAlerts

SpecAlert == InitAlert /\ [][NextAlert]_vars

(***************************************************************************)
(* The root layout between the two stores.  It reads prices from the price *)
(* store with a selector and evaluates the alerts in an effect that has    *)
(* prices as a dependency: the effect runs after a render of the layout    *)
(* that saw another prices object than the render before it.  A write of   *)
(* the price store asks for a render; it does not run one, so the writes   *)
(* of two fetches that end before the layout renders are seen as one       *)
(* change, with the prices of the second.                                  *)
(***************************************************************************)
\* What a successful fetchPrices returns to the store.
ForwardedData == {<<PriceData("bitcoin", Num(p), StartTime)>> : p \in 1..3}

\* A fetchAllPrices call ends in a success and writes the price store.
PricesArrive ==
  \E data \in ForwardedData :
    /\ FetchAllPricesDone(Success(data))
    /\ effectPending' = TRUE
    /\ last' = Event("pricesArrive", data, NoResult, NoPre)
    /\ UNCHANGED <<callVars, now, chartVars, inflight, started, isPolling,
                   pollingInterval, timers, chartSess, activeAlerts, triggeredAlerts,
                   idsDrawn, unviewedCount, everTriggered>>

\* The effect of the root layout, after the render that saw the new prices.
RootLayoutEffect ==
  /\ effectPending
  /\ effectPending' = FALSE
  /\ IF prices # EmptyMap
     THEN evaluateAlertsOn(prices)
     ELSE UNCHANGED <<activeAlerts, triggeredAlerts, idsDrawn, unviewedCount,
                      everTriggered, last>>
  /\ UNCHANGED <<callVars, now, storeVars, inflight, started, isPolling,
                 pollingInterval, timers, chartSess>>

NextForward ==
  \/ addAlert
  \/ PricesArrive
  \/ RootLayoutEffect

\* A render that was asked for happens, and its effects run.
SpecForward == InitAlert /\ [][NextForward]_vars /\ WF_vars(RootLayoutEffect)

(***************************************************************************)
(* Properties.                                                             *)
(***************************************************************************)
Done == pc = "done"
Failed == Done /\ result.kind = "failure"
Is429(status) == status = 429
Is5xx(status) == status >= 500
AllOutcomes429 == Len(outcomes) > 0 /\ \A i \in 1..Len(outcomes) : Is429(outcomes[i])
AllOutcomes5xx == Len(outcomes) > 0 /\ \A i \in 1..Len(outcomes) : Is5xx(outcomes[i])

\* C1: a call issues at most 4 HTTP requests whatever the attempts answer;
\* when every attempt answers 429 (resp. 5xx) it issues exactly 4 and
\* fetchPrices returns RATE_LIMIT (resp. SERVER_ERROR), retryable.
C1_AtMostFourRequests ==
  /\ requests <= 4
  /\ (Done /\ call.fn = "fetchPrices" /\ AllOutcomes429)
       => (requests = 4 /\ result = Failure([type |-> "RATE_LIMIT", retryable |-> TRUE]))
  /\ (Done /\ call.fn = "fetchPrices" /\ AllOutcomes5xx)
       => (requests = 4 /\ result = Failure([type |-> "SERVER_ERROR", retryable |-> TRUE]))

C1_Witness ==
  /\ Done
  /\ call.fn = "fetchPrices"
  /\ outcomes = <<429, 429, 429, 429>>
  /\ result.error.type = "RATE_LIMIT"

\* C2: a response with a status in 400..499 other than 429 ends the call at
\* once: it is the last attempt, no request follows it and no backoff delay is
\* taken after it, and the result is the failure made from that status.
C2_ClientErrorReturnedAtOnce ==
  \A i \in 1..Len(outcomes) :
    (outcomes[i] >= 400 /\ outcomes[i] <= 499 /\ outcomes[i] # 429)
      => /\ i = Len(outcomes)
         /\ Done
         /\ requests = i
         /\ Len(sleeps) = i - 1
         /\ cause.src = "status"
         /\ cause.status = outcomes[i]
         /\ result.kind = "failure"

C2_Witness ==
  /\ Done
  /\ outcomes = <<429, 400>>
  /\ requests = 2
  /\ sleeps = <<1000>>

\* C3 as stated: every retryable failure returned by a repository function
\* comes after maxRetries+1 attempts.
C3_RetryableOnlyAfterExhaustion ==
  (Failed /\ result.error.retryable) => requests = MAX_RETRIES + 1

\* C3 amended: a failure made from a 429 or 5xx status, or from an exception
\* thrown by the request itself, comes after maxRetries+1 attempts.
RetriedCause ==
  \/ cause.src = "request"
  \/ (cause.src = "status" /\ (cause.status = 429 \/ cause.status >= 500))

C3_RetriedFailuresAfterExhaustion ==
  (Failed /\ RetriedCause)
     => (result.error.retryable /\ requests = MAX_RETRIES + 1 /\ Len(sleeps) = MAX_RETRIES)

C3_Witness ==
  /\ Failed
  /\ cause.src = "request"
  /\ result.error.type = "NETWORK"
  /\ requests = 4
  /\ call.fn = "fetchChartDataWithVolume"

\* C4: the classification table.  Every error is of one of the seven kinds;
\* a status maps 429 -> RATE_LIMIT, 404 -> NOT_FOUND (not retryable),
\* >= 500 -> SERVER_ERROR, other -> UNKNOWN; a thrown Error maps
\* AbortError -> TIMEOUT, connectivity -> NETWORK, SyntaxError -> PARSE_ERROR,
\* anything else -> UNKNOWN; only NOT_FOUND is not retryable.
ErrorsInState ==
  {lastError, result.error, error, ret.error}
    \cup {chartLoadingStates[k].error : k \in DOMAIN chartLoadingStates}

ExpectedForStatus(status) ==
  CASE status = 429 -> [type |-> "RATE_LIMIT", retryable |-> TRUE]
    [] status = 404 -> [type |-> "NOT_FOUND", retryable |-> FALSE]
    [] status >= 500 -> [type |-> "SERVER_ERROR", retryable |-> TRUE]
    [] OTHER -> [type |-> "UNKNOWN", retryable |-> TRUE]

ExpectedForException(e) ==
  CASE e.isError /\ e.name = "AbortError" -> [type |-> "TIMEOUT", retryable |-> TRUE]
    [] e.isError /\ e.name # "AbortError" /\ (e.netMsg \/ e.name = "TypeError") ->
         [type |-> "NETWORK", retryable |-> TRUE]
    [] e.isError /\ e.name = "SyntaxError" /\ ~e.netMsg ->
         [type |-> "PARSE_ERROR", retryable |-> TRUE]
    [] OTHER -> [type |-> "UNKNOWN", retryable |-> TRUE]

C4_Classification ==
  /\ \A err \in ErrorsInState :
       err # NoError => (err.type \in ApiErrorType /\ (~err.retryable => err.type = "NOT_FOUND"))
  /\ (Failed /\ cause.src = "status") => result.error = ExpectedForStatus(cause.status)
  /\ (Failed /\ cause.src \in {"request", "bodyread"})
       => result.error = ExpectedForException(cause.exc)
  /\ (pc \in {"request", "sleep"} /\ lastError # NoError) => lastError.retryable

C4_Witness ==
  /\ Failed
  /\ call.fn = "fetchPrices"
  /\ cause.src = "request"
  /\ cause.exc = [isError |-> TRUE, name |-> "TypeError", netMsg |-> TRUE, isSyntax |-> FALSE]
  /\ result.error = [type |-> "NETWORK", retryable |-> TRUE]

\* C5: the delay before the retry that follows failed attempt a is
\* 1000 * 2^a ms (1000, 2000, 4000), after a 429/5xx response as after a
\* thrown exception, and no delay follows the final attempt.
C5_Backoff ==
  /\ Len(sleeps) <= 3
  /\ sleeps = SubSeq(<<1000, 2000, 4000>>, 1, Len(sleeps))
  /\ pc = "sleep" => Len(sleeps) = Len(outcomes)
  /\ pc = "request" => Len(sleeps) = Len(outcomes)
  /\ (pc \in {"body", "done"} /\ Len(outcomes) > 0) => Len(sleeps) = Len(outcomes) - 1
  /\ \A i \in 1..Len(sleeps) : outcomes[i] \in {0, 429, 500}

C5_Witness ==
  /\ Done
  /\ sleeps = <<1000, 2000, 4000>>
  /\ outcomes[1] = 429
  /\ outcomes[2] = 0
  /\ outcomes[3] = 500

\* C6: every pending HTTP request, the read of its body included, is under
\* the 10,000 ms abort timer, so that none can stay pending forever.
C6_PendingUnderTimer ==
  pc \in {"request", "body"} => timerArmed

\* C7: the repository functions and the store operations never reject: each
\* settles with a success or with a failure that carries a typed error.
C7_NeverRejects ==
  /\ ~Done => outcome = "pending"
  /\ Done =>
       /\ outcome = "resolved"
       /\ call.fn # "none" =>
            /\ result.kind \in {"success", "failure"}
            /\ result.kind = "failure" => result.error.type \in ApiErrorType
       /\ call.caller = "getChartData" =>
            (ret.error = NoError \/ ret.error.type \in ApiErrorType)
       /\ call.caller \in {"fetchAllPrices", "refreshPrices"} =>
            (error = NoError \/ error.type \in ApiErrorType)

C7_Witness ==
  /\ Done
  /\ call.caller = "getChartData"
  /\ cause.src = "bodyread"
  /\ outcome = "resolved"
  /\ ret.error.type = "PARSE_ERROR"

\* C8: fetchPrices succeeds only with the non-empty list of exactly the
\* entries of the body whose price is a finite number > 0, in the order of
\* the body; an empty body, or one without a valid entry, is a PARSE_ERROR.
IsValidEntry(e) == ~e.isNull /\ e.usd.k = "num" /\ e.usd.v > 0

C8_ExactlyTheValidEntries ==
  (Done /\ call.fn = "fetchPrices" /\ body.k \in {"null", "scalar", "object"}) =>
    LET valid == SelectSeq(body.entries, IsValidEntry)
    IN IF Len(valid) > 0
       THEN /\ result.kind = "success"
            /\ Len(result.data) = Len(valid)
            /\ \A i \in 1..Len(valid) :
                 /\ result.data[i].cryptoId = valid[i].id
                 /\ result.data[i].price = valid[i].usd
       ELSE /\ result.kind = "failure"
            /\ result.error.type = "PARSE_ERROR"

C8_Witness ==
  /\ Done
  /\ call.fn = "fetchPrices"
  /\ body.k = "object"
  /\ Len(body.entries) = 2
  /\ ~IsValidEntry(body.entries[1])
  /\ IsValidEntry(body.entries[2])
  /\ result.kind = "success"
  /\ Len(result.data) = 1

\* C9: every PriceSnapshot of a successful fetchPrices or fetchSinglePrice
\* has price > 0; fetchSinglePrice for an id that the response lacks returns
\* NOT_FOUND, not retryable.
IsPositive(x) == x.k = "num" /\ x.v > 0

C9_SnapshotPricesPositive ==
  /\ (Done /\ call.fn = "fetchPrices" /\ result.kind = "success")
       => \A i \in 1..Len(result.data) : IsPositive(result.data[i].price)
  /\ (Done /\ call.fn = "fetchSinglePrice" /\ result.kind = "success")
       => IsPositive(result.data.price)
  /\ (Done /\ call.fn = "fetchSinglePrice" /\ body.k = "object"
        /\ \A i \in 1..Len(body.entries) : body.entries[i].id # call.cryptoId)
       => result = Failure([type |-> "NOT_FOUND", retryable |-> FALSE])

\* C10 as stated: a successful fetchChartDataWithVolume has a non-empty price
\* series of values > 0 and a volume series of values >= 0, no point with an
\* invalid timestamp or value, and both series in ascending order of
\* timestamp; a payload whose sanitized price series is empty is a
\* PARSE_ERROR.
IsFiniteNum(x) == x.k = "num"
Ascending(series) ==
  \A i, j \in 1..Len(series) : i < j => series[i].timestamp.v <= series[j].timestamp.v
IsSanePricePoint(p) ==
  ~p.bad /\ IsFiniteNum(p.ts) /\ IsFiniteNum(p.value) /\ p.value.v > 0
    /\ (call.timeframe = "1h" => p.ts.v >= now - 3600000)

C10_SortedValidSeries ==
  (Done /\ call.fn = "fetchChartDataWithVolume" /\ body.k \in {"noprices", "object"}) =>
    /\ result.kind = "success" =>
         /\ Len(result.data.prices) > 0
         /\ \A i \in 1..Len(result.data.prices) :
              /\ IsFiniteNum(result.data.prices[i].timestamp)
              /\ IsPositive(result.data.prices[i].value)
         /\ \A i \in 1..Len(result.data.volumes) :
              /\ IsFiniteNum(result.data.volumes[i].timestamp)
              /\ IsFiniteNum(result.data.volumes[i].value)
              /\ result.data.volumes[i].value.v >= 0
         /\ Ascending(result.data.prices)
         /\ Ascending(result.data.volumes)
    /\ (\A i \in 1..Len(body.prices) : ~IsSanePricePoint(body.prices[i]))
         => (result.kind = "failure" /\ result.error.type = "PARSE_ERROR")

\* C10 amended: the series of a successful result are the points of the
\* payload, in the order of the payload, whose timestamp is of type number
\* (NaN included) and whose value is a finite number > 0 (prices) or >= 0
\* (volumes), within the last hour for 1h; the price series is not empty.
\* A payload that leaves no price point is a failure: NETWORK when an element
\* that is no pair, or a total_volumes that is no array, made the processing
\* throw, PARSE_ERROR otherwise.
TsOfTypeNumber(p) == p.ts.k \in {"num", "nan", "inf"}
InWindow(p) == call.timeframe = "1h" => (p.ts.k = "num" /\ p.ts.v >= now - 3600000)
IsKeptPrice(p) ==
  InWindow(p) /\ TsOfTypeNumber(p) /\ p.value.k = "num" /\ p.value.v > 0
IsKeptVolume(p) ==
  InWindow(p) /\ TsOfTypeNumber(p) /\ p.value.k = "num" /\ p.value.v >= 0
SamePoints(series, raw) ==
  /\ Len(series) = Len(raw)
  /\ \A i \in 1..Len(raw) :
       series[i].timestamp = raw[i].ts /\ series[i].value = raw[i].value
ProcessingThrows ==
  \/ body.vk = "nonarray"
  \/ \E i \in 1..Len(body.prices) : body.prices[i].bad
  \/ \E i \in 1..Len(body.volumes) : body.volumes[i].bad

C10_SeriesAsFiltered ==
  (Done /\ call.fn = "fetchChartDataWithVolume" /\ body.k \in {"noprices", "object"}) =>
    IF body.k = "object" /\ ProcessingThrows
    THEN result.kind = "failure" /\ result.error.type = "NETWORK"
    ELSE IF body.k = "noprices" \/ SelectSeq(body.prices, IsKeptPrice) = <<>>
    THEN result.kind = "failure" /\ result.error.type = "PARSE_ERROR"
    ELSE /\ result.kind = "success"
         /\ Len(result.data.prices) > 0
         /\ SamePoints(result.data.prices, SelectSeq(body.prices, IsKeptPrice))
         /\ SamePoints(result.data.volumes, SelectSeq(body.volumes, IsKeptVolume))

C10_Witness ==
  /\ Done
  /\ call.fn = "fetchChartDataWithVolume"
  /\ result.kind = "success"
  /\ Len(result.data.prices) = 2
  /\ result.data.prices[1].timestamp.k = "num"
  /\ result.data.prices[2].timestamp.k = "num"
  /\ result.data.prices[1].timestamp.v > result.data.prices[2].timestamp.v

(***************************************************************************)
(* The price store and the polling store (SpecStore).                      *)
(***************************************************************************)
Settled == last.ev = "settle"
ResultIds == {last.res.data[i].cryptoId : i \in 1..Len(last.res.data)}

\* C11: a price fetch that settles with a success leaves a price map that
\* holds exactly the entries of the result, stamped with the current time; one
\* that settles with a failure leaves the price map and lastFetchTime as they
\* were.
C11_ReplaceAllOrNothing ==
  Settled =>
    IF last.res.kind = "success"
    THEN /\ DOMAIN prices = ResultIds
         /\ \A i \in 1..Len(last.res.data) :
              prices[last.res.data[i].cryptoId] = last.res.data[i]
         /\ lastFetchTime = <<now>>
    ELSE /\ prices = last.pre.prices
         /\ lastFetchTime = last.pre.lastFetchTime

\* A failure settles after a poll interval has passed since the last success.
C11_Witness ==
  /\ Settled
  /\ last.res.kind = "failure"
  /\ DOMAIN prices = {"bitcoin"}
  /\ lastFetchTime # <<>>
  /\ lastFetchTime[1] < now

\* The steps in which fetchAllPrices was called: by the application, by
\* startPolling, by the interval callback.
CalledFetchAllPrices ==
  /\ last.ev \in {"start", "startPolling", "tick"}
  /\ last.op # "refreshPrices"
  /\ started > last.pre.started

\* C12: fetchAllPrices, up to its await, sets isLoading exactly when
\* consecutiveFailures was 0 at the call; otherwise isLoading is as it was.
C12_LoadingOnlyFromZeroFailures ==
  CalledFetchAllPrices =>
    /\ inflight # <<>>
    /\ IF last.pre.consecutiveFailures = 0
       THEN isLoading
       ELSE isLoading = last.pre.isLoading /\ ~isLoading

C12_Witness ==
  /\ last.ev = "start"
  /\ last.op = "fetchAllPrices"
  /\ last.pre.consecutiveFailures >= 1
  /\ ~isLoading
  /\ Len(inflight) = 1

\* C13: a fetchAllPrices call that fails adds one to consecutiveFailures,
\* stores the error and clears isLoading; one that succeeds sets
\* consecutiveFailures to 0 and error to null.
C13_FailureCount ==
  (Settled /\ last.op = "fetchAllPrices") =>
    IF last.res.kind = "failure"
    THEN /\ consecutiveFailures = last.pre.consecutiveFailures + 1
         /\ error = last.res.error
         /\ ~isLoading
    ELSE /\ consecutiveFailures = 0
         /\ error = NoError

\* Three calls, one after the other, have failed.
C13_Witness ==
  /\ Settled
  /\ last.op = "fetchAllPrices"
  /\ last.res.kind = "failure"
  /\ consecutiveFailures = 3
  /\ inflight = <<>>

\* C14: refreshPrices, up to its await, has set isLoading, cleared the error
\* and reset consecutiveFailures, whatever they were.
C14_RefreshResets ==
  (last.ev = "start" /\ last.op = "refreshPrices") =>
    /\ isLoading
    /\ consecutiveFailures = 0
    /\ error = NoError
    /\ inflight # <<>>

C14_Witness ==
  /\ last.ev = "start"
  /\ last.op = "refreshPrices"
  /\ last.pre.consecutiveFailures = 2
  /\ last.pre.error # NoError
  /\ ~last.pre.isLoading
  /\ isLoading /\ consecutiveFailures = 0 /\ error = NoError

\* C15: at most one interval timer is alive, one is alive exactly when
\* isPolling, and the live timer is the one the handle names.
C15_OneTimer ==
  /\ Cardinality(timers) <= 1
  /\ (timers # {}) <=> isPolling
  /\ timers \subseteq {pollingInterval}
  /\ (pollingInterval # 0) => pollingInterval \in timers

\* Polling was started, stopped and started again.
C15_Witness ==
  /\ last.ev = "startPolling"
  /\ ~last.pre.isPolling
  /\ started >= 2
  /\ \A i \in 1..Len(inflight) : inflight[i].src = "immediate"
  /\ Len(inflight) = 2
  /\ Cardinality(timers) = 1

\* C16: startPolling while polling changes nothing; while not polling it sets
\* isPolling and calls fetchAllPrices once, at once.  stopPolling while not
\* polling changes nothing.
C16_Idempotent ==
  /\ (last.ev = "startPolling" /\ last.pre.isPolling) => PreState = last.pre
  /\ (last.ev = "startPolling" /\ ~last.pre.isPolling) =>
       /\ isPolling
       /\ started = last.pre.started + 1
       /\ inflight = Append(last.pre.inflight,
                            [op |-> "fetchAllPrices", src |-> "immediate"])
       /\ Cardinality(timers) = Cardinality(last.pre.timers) + 1
  /\ (last.ev = "stopPolling" /\ ~last.pre.isPolling) => PreState = last.pre

\* startPolling is called while polling, with the immediate fetch in flight.
C16_Witness ==
  /\ last.ev = "startPolling"
  /\ last.pre.isPolling
  /\ isPolling
  /\ inflight = <<[op |-> "fetchAllPrices", src |-> "immediate"]>>
  /\ started = 1

\* C17: every poll interval that passes while polling calls fetchAllPrices
\* once; an interval that passes while not polling calls nothing.
C17_OneFetchPerInterval ==
  (last.ev = "tick") =>
    IF last.pre.isPolling
    THEN /\ started = last.pre.started + 1
         /\ inflight = Append(last.pre.inflight,
                              [op |-> "fetchAllPrices", src |-> "timer"])
    ELSE /\ started = last.pre.started
         /\ inflight = last.pre.inflight

\* Two intervals after startPolling: the immediate call and two timer calls.
C17_Witness ==
  /\ last.ev = "tick"
  /\ now = StartTime + 2 * PRICE_POLL_INTERVAL
  /\ started = 3
  /\ inflight = <<[op |-> "fetchAllPrices", src |-> "immediate"],
                  [op |-> "fetchAllPrices", src |-> "timer"],
                  [op |-> "fetchAllPrices", src |-> "timer"]>>

\* C18: the derived status is offline exactly when consecutiveFailures >= 2
\* with a NETWORK or TIMEOUT error, checking exactly when loading with no
\* fetch time, online otherwise; the two conditions never hold together.
IsOfflineCondition ==
  consecutiveFailures >= 2 /\ error # NoError /\ error.type \in {"NETWORK", "TIMEOUT"}
IsCheckingCondition == isLoading /\ lastFetchTime = <<>>

C18_ConnectionStatus ==
  /\ (useNetworkStatus = "offline") <=> IsOfflineCondition
  /\ (useNetworkStatus = "checking") <=> IsCheckingCondition
  /\ (useNetworkStatus = "online") <=> (~IsOfflineCondition /\ ~IsCheckingCondition)
  /\ ~(IsOfflineCondition /\ IsCheckingCondition)

C18_Witness ==
  /\ useNetworkStatus = "offline"
  /\ consecutiveFailures = 2
  /\ error.type = "TIMEOUT"
  /\ lastFetchTime = <<>>
  /\ Len(inflight) = 1

(***************************************************************************)
(* The chart store (SpecChart).                                            *)
(***************************************************************************)
CalledGetChartData == last.ev \in {"chartHit", "chartStart"}

\* The entries a call for last.op = <<cryptoId, timeframe>> could be served
\* from: those under its key, of its timeframe, younger than the duration.
ServableEntries ==
  {i \in 1..Len(last.pre.chartCache) :
     /\ last.pre.chartCache[i].key = last.op
     /\ last.pre.chartCache[i].timeframe = last.op[2]
     /\ now - last.pre.chartCache[i].fetchedAt < 300000}

\* C19: getChartData returns from the cache exactly when the key has an entry
\* of the requested timeframe that is less than 300,000 ms old; then it goes
\* to no network call and leaves chartCache and chartLoadingStates as they
\* were, returning the data of the entry.
C19_FreshHit ==
  CalledGetChartData =>
    /\ (last.ev = "chartHit") <=> (ServableEntries # {})
    /\ (last.ev = "chartHit") =>
         /\ chartCache = last.pre.chartCache
         /\ chartLoadingStates = last.pre.chartLoadingStates
         /\ chartPending = last.pre.chartPending
         /\ \A i \in ServableEntries :
              /\ ret.prices = chartCache[i].prices
              /\ ret.volumes = chartCache[i].volumes
              /\ ret.error = NoError

\* An entry read back from storage is served, half a cache duration later,
\* while another key is loading.
C19_Witness ==
  /\ last.ev = "chartHit"
  /\ chartCalls = 2
  /\ Len(chartPending) = 1
  /\ \E i \in ServableEntries : now - chartCache[i].fetchedAt = ChartStep + 1
  /\ last.op \notin DOMAIN chartLoadingStates

\* What was seen of the key of the call before the call.
SeenBefore ==
  IF last.op \in DOMAIN last.pre.chartSeen
  THEN last.pre.chartSeen[last.op]
  ELSE [missAt |-> Never, okAt |-> Never, hitAt |-> Never]

\* C20 as stated: of two calls for one key less than 300,000 ms apart, with
\* no clearChartCache in between, the second does not go to the network when
\* the first did.
C20_TwoCallsOneRequest ==
  (last.ev = "chartStart") =>
    ~(SeenBefore.missAt # Never /\ now - SeenBefore.missAt < 300000)

\* C20 amended: a call made less than 300,000 ms after a network fetch for
\* its key ended in a success, with no clearChartCache in between, does not go
\* to the network.
C20_NoRefetchAfterSuccess ==
  CalledGetChartData =>
    ((SeenBefore.okAt # Never /\ now - SeenBefore.okAt < 300000)
       => (last.ev = "chartHit" /\ chartPending = last.pre.chartPending))

\* The second of two calls for a key is served from what the first fetched.
C20_Witness ==
  /\ last.ev = "chartHit"
  /\ chartCalls = 2
  /\ SeenBefore.missAt = StartTime
  /\ SeenBefore.okAt = StartTime + ChartStep
  /\ now = StartTime + 2 * ChartStep
  /\ chartPending = <<>>

\* The getChartData call that settled last, and how.
ChartSettled == last.ev = "chartSettle"
ChartSucceeded == ChartSettled /\ last.res.kind = "success"
ChartFailed == ChartSettled /\ last.res.kind # "success"

\* Where the cache holds an entry under the key.
EntriesOf(cache, key) == {i \in 1..Len(cache) : cache[i].key = key}

\* C21: getChartData on a key with no fresh entry sets the key's loading
\* state to {isLoading: true, error: null} and goes to the network; when the
\* fetch succeeds the cache holds one entry under the key, made of the new
\* prices and volumes, the timeframe and the time of the completion, the call
\* returns the new data with error null and the key's loading state is
\* {isLoading: false, error: null}.
C21_MissFetchesAndReplaces ==
  /\ (CalledGetChartData /\ ServableEntries = {}) => last.ev = "chartStart"
  /\ (last.ev = "chartStart") =>
       /\ last.op \in DOMAIN chartLoadingStates
       /\ chartLoadingStates[last.op] = [isLoading |-> TRUE, error |-> NoError]
       /\ Len(chartPending) = Len(last.pre.chartPending) + 1
       /\ chartPending[Len(chartPending)].key = last.op
       /\ chartCache = last.pre.chartCache
  /\ ChartSucceeded =>
       /\ Cardinality(EntriesOf(chartCache, last.op)) = 1
       /\ \A i \in EntriesOf(chartCache, last.op) :
            chartCache[i] = [key |-> last.op, prices |-> last.res.data.prices,
                             volumes |-> last.res.data.volumes,
                             timeframe |-> last.op[2], fetchedAt |-> now]
       /\ ret = [prices |-> last.res.data.prices, volumes |-> last.res.data.volumes,
                 error |-> NoError]
       /\ chartLoadingStates[last.op] = [isLoading |-> FALSE, error |-> NoError]

\* A stale entry is overwritten by a fetch that brought other data.
C21_Witness ==
  /\ ChartSucceeded
  /\ \E i \in EntriesOf(last.pre.chartCache, last.op) :
       /\ now - last.pre.chartCache[i].fetchedAt >= 300000
       /\ last.pre.chartCache[i].prices # last.res.data.prices
  /\ last.res.data.prices # <<>>

\* C22 as stated: when the fetch of a call fails the cache is left as it was,
\* the key's loading state is {isLoading: false, error: the error}, and the
\* call returns the data of the entry the cache holds under the key (empty
\* series when it holds none) with the error, whatever other calls completed
\* while it was in flight.
C22_FailureReturnsPresentEntry ==
  ChartFailed =>
    /\ chartCache = last.pre.chartCache
    /\ chartLoadingStates[last.op] = [isLoading |-> FALSE, error |-> last.res.error]
    /\ ret = [prices |-> Lookup(chartCache, last.op).prices,
              volumes |-> Lookup(chartCache, last.op).volumes,
              error |-> last.res.error]

\* C23: the cache never holds more than 20 entries, and a call served from
\* the cache, the start of a fetch and a failed fetch leave the number of
\* entries as it was.
C23_AtMostTwentyEntries ==
  /\ Len(chartCache) <= 20
  /\ (CalledGetChartData \/ ChartFailed) => Len(chartCache) = Len(last.pre.chartCache)

\* A new key is inserted into a cache holding 20 entries.
C23_Witness ==
  /\ ChartSucceeded
  /\ Len(last.pre.chartCache) = 20
  /\ EntriesOf(last.pre.chartCache, last.op) = {}
  /\ Len(chartCache) = 20

\* The entries of the cache before the insert that the cache no longer holds.
Evicted ==
  {i \in 1..Len(last.pre.chartCache) :
     \A j \in 1..Len(chartCache) : chartCache[j] # last.pre.chartCache[i]}

\* C24: when a successful fetch of a new key finds 20 entries, exactly one of
\* them is evicted, one of minimum fetchedAt among the 21, and the cache holds
\* the other 19 as they were together with the new entry.
C24_EvictsMinimum ==
  (ChartSucceeded /\ Len(last.pre.chartCache) = 20
     /\ EntriesOf(last.pre.chartCache, last.op) = {}) =>
    /\ Cardinality(Evicted) = 1
    /\ Len(chartCache) = 20
    /\ EntriesOf(chartCache, last.op) # {}
    /\ \A i \in Evicted :
         /\ last.pre.chartCache[i].fetchedAt <= now
         /\ \A j \in 1..20 :
              last.pre.chartCache[i].fetchedAt <= last.pre.chartCache[j].fetchedAt

\* The entry evicted is the oldest, held in second place, and the first place
\* keeps its entry.
C24_Witness ==
  /\ ChartSucceeded
  /\ Len(last.pre.chartCache) = 20
  /\ Evicted = {2}
  /\ chartCache[1] = last.pre.chartCache[1]
  /\ chartCache[20].key = last.op

\* When getChartData last returned the data of entry i of the cache the
\* insert found: when it was fetched, or served from the cache later.
UsedAt(i) ==
  LET e == last.pre.chartCache[i]
      hitAt == IF e.key \in DOMAIN last.pre.chartSeen
               THEN last.pre.chartSeen[e.key].hitAt
               ELSE Never
  IN IF hitAt > e.fetchedAt THEN hitAt ELSE e.fetchedAt

\* C25 as stated: the entry evicted is the least recently used one; no entry
\* is evicted while the cache keeps one that getChartData returned less
\* recently.
C25_LeastRecentlyUsed ==
  ChartSucceeded =>
    \A i \in Evicted :
      (last.pre.chartCache[i].key # last.op) =>
        \A j \in 1..Len(last.pre.chartCache) : UsedAt(i) <= UsedAt(j)

\* C26: the start and the completion of a call change the loading state of
\* the call's key only, to what the call alone makes it: loading without
\* error at the start, not loading with the error of the fetch (null after a
\* success) at the end; the states of all other keys stay as they were.
C26_KeysIndependent ==
  (last.ev = "chartStart" \/ ChartSettled) =>
    /\ DOMAIN chartLoadingStates = DOMAIN last.pre.chartLoadingStates \cup {last.op}
    /\ \A k \in DOMAIN last.pre.chartLoadingStates :
         (k # last.op) => chartLoadingStates[k] = last.pre.chartLoadingStates[k]
    /\ (last.ev = "chartStart") =>
         chartLoadingStates[last.op] = [isLoading |-> TRUE, error |-> NoError]
    /\ ChartSucceeded =>
         chartLoadingStates[last.op] = [isLoading |-> FALSE, error |-> NoError]
    /\ ChartFailed =>
         chartLoadingStates[last.op] = [isLoading |-> FALSE, error |-> last.res.error]

\* A call fails while a call for another key, started after it, is loading.
C26_Witness ==
  /\ ChartFailed
  /\ Len(chartPending) = 1
  /\ chartPending[1].key # last.op
  /\ Len(last.pre.chartPending) = 2
  /\ last.pre.chartPending[1].key = last.op
  /\ chartLoadingStates[chartPending[1].key] = [isLoading |-> TRUE, error |-> NoError]
  /\ chartLoadingStates[last.op].error # NoError

(***************************************************************************)
(* The alert store.                                                        *)
(***************************************************************************)
EvaluatedAlerts == last.ev = "evaluateAlerts"

\* The trigger condition of an alert under the snapshot of the evaluation.
ConditionHolds(a) ==
  /\ a.cryptoId \in DOMAIN last.op
  /\ \/ a.type = "above" /\ last.op[a.cryptoId].price.v >= a.threshold
     \/ a.type = "below" /\ last.op[a.cryptoId].price.v <= a.threshold
ConditionFails(a) == ~ConditionHolds(a)

\* The triggered alerts the evaluation added.
NewlyTriggered ==
  SubSeq(triggeredAlerts, 1, Len(triggeredAlerts) - Len(last.pre.triggeredAlerts))

\* C27: evaluateAlerts triggers an active alert exactly when the snapshot has
\* a price for its instrument and (above and price >= threshold) or (below and
\* price <= threshold); a price equal to the threshold triggers both ways.
C27_InclusiveThresholds ==
  EvaluatedAlerts =>
    \A i \in 1..Len(last.pre.activeAlerts) :
      (\E n \in 1..Len(NewlyTriggered) :
         NewlyTriggered[n].alert = last.pre.activeAlerts[i])
        <=> ConditionHolds(last.pre.activeAlerts[i])

\* An above alert and a below alert both trigger at a price equal to their
\* thresholds.
C27_Witness ==
  /\ EvaluatedAlerts
  /\ Len(NewlyTriggered) = 2
  /\ NewlyTriggered[1].alert.type # NewlyTriggered[2].alert.type
  /\ \A n \in 1..2 : NewlyTriggered[n].triggeredPrice = NewlyTriggered[n].alert.threshold

\* C28: evaluateAlerts leaves the alerts whose condition does not hold (no
\* price, or condition not met) active, with their fields and in their order,
\* and leaves both lists as they were when no alert triggers.
C28_NonTriggeringStay ==
  EvaluatedAlerts =>
    /\ SelectSeq(activeAlerts, ConditionFails)
         = SelectSeq(last.pre.activeAlerts, ConditionFails)
    /\ (\A i \in 1..Len(last.pre.activeAlerts) :
          ConditionFails(last.pre.activeAlerts[i]))
         => /\ activeAlerts = last.pre.activeAlerts
            /\ triggeredAlerts = last.pre.triggeredAlerts

\* Of two active alerts the first triggers and the second, whose instrument
\* has no price in the snapshot, stays.
C28_Witness ==
  /\ EvaluatedAlerts
  /\ Len(last.pre.activeAlerts) = 2
  /\ activeAlerts = <<last.pre.activeAlerts[2]>>
  /\ activeAlerts[1].cryptoId \notin DOMAIN last.op

\* C29: one evaluateAlerts step takes every triggering alert out of the
\* active list and puts one TriggeredAlert for it, with viewed = false, the
\* triggering price and the alert as it was, in front of the triggered alerts
\* there were, which keep their order and content; |active| + |triggered| is
\* preserved.
C29_AtomicMove ==
  EvaluatedAlerts =>
    LET hit == SelectSeq(last.pre.activeAlerts, ConditionHolds)
    IN /\ Len(triggeredAlerts) = Len(last.pre.triggeredAlerts) + Len(hit)
       /\ \A n \in 1..Len(hit) :
            /\ triggeredAlerts[n].alert = hit[n]
            /\ triggeredAlerts[n].viewed = FALSE
            /\ triggeredAlerts[n].triggeredPrice = last.op[hit[n].cryptoId].price.v
            /\ \A i \in 1..Len(activeAlerts) : activeAlerts[i].id # hit[n].id
       /\ \A n \in 1..Len(last.pre.triggeredAlerts) :
            triggeredAlerts[Len(hit) + n] = last.pre.triggeredAlerts[n]
       /\ Len(activeAlerts) + Len(triggeredAlerts)
            = Len(last.pre.activeAlerts) + Len(last.pre.triggeredAlerts)

\* An alert triggers after another one triggered in an earlier evaluation.
C29_Witness ==
  /\ EvaluatedAlerts
  /\ Len(last.pre.triggeredAlerts) = 1
  /\ Len(triggeredAlerts) = 2
  /\ triggeredAlerts[2] = last.pre.triggeredAlerts[1]
  /\ triggeredAlerts[1].alert = last.pre.activeAlerts[1]
  /\ activeAlerts = <<>>

\* The alerts of the other instruments than the one addAlert was called for.
OtherInstrument(a) == a.cryptoId # last.op.cryptoId

\* C30: the active list never holds two alerts of one instrument; after
\* addAlert it holds exactly one alert of the instrument, with the new id,
\* type and threshold, and the alerts of the other instruments as they were.
C30_OnePerInstrument ==
  /\ \A i, j \in 1..Len(activeAlerts) :
       (i # j) => activeAlerts[i].cryptoId # activeAlerts[j].cryptoId
  /\ (last.ev = "addAlert") =>
       /\ Cardinality({i \in 1..Len(activeAlerts) :
                         activeAlerts[i].cryptoId = last.op.cryptoId}) = 1
       /\ \A i \in 1..Len(activeAlerts) :
            (activeAlerts[i].cryptoId = last.op.cryptoId) =>
              /\ activeAlerts[i].id = last.res
              /\ activeAlerts[i].type = last.op.type
              /\ activeAlerts[i].threshold = last.op.threshold
              /\ \A j \in 1..Len(last.pre.activeAlerts) :
                   last.pre.activeAlerts[j].id # last.res
       /\ SelectSeq(activeAlerts, OtherInstrument)
            = SelectSeq(last.pre.activeAlerts, OtherInstrument)

\* addAlert replaces the alert of the instrument, of the other type and
\* another threshold, while another instrument has an alert.
C30_Witness ==
  /\ last.ev = "addAlert"
  /\ Len(last.pre.activeAlerts) = 2
  /\ last.pre.activeAlerts[1].cryptoId = last.op.cryptoId
  /\ last.pre.activeAlerts[1].type # last.op.type
  /\ last.pre.activeAlerts[1].threshold # last.op.threshold
  /\ activeAlerts = <<last.pre.activeAlerts[2], activeAlerts[2]>>
  /\ activeAlerts[2].id = last.res

(***************************************************************************)
(* The price store under overlapping calls.                                *)
(***************************************************************************)
\* C35: in every state reached through fetchAllPrices, refreshPrices and
\* clearError, in any interleaving of overlapping calls, isLoading = true
\* implies consecutiveFailures = 0.
C35_LoadingImpliesNoFailures ==
  isLoading => consecutiveFailures = 0

\* refreshPrices raises the loading flag after a failure, while the fetch of
\* another call is in flight.
C35_Witness ==
  /\ isLoading
  /\ last.ev = "start"
  /\ last.op = "refreshPrices"
  /\ last.pre.consecutiveFailures > 0
  /\ ~last.pre.isLoading
  /\ Len(inflight) = 2

\* A call of the price store settled with a success, writing the price map
\* and lastFetchTime.
WroteSnapshot == last.ev = "settle" /\ last.res.kind = "success"

\* C36 as stated: price responses are applied in request order; once the
\* result of a fetch was written, no fetch that was started before it writes
\* the price map and lastFetchTime over it.
C36_AppliedInRequestOrder ==
  [][~(/\ WroteSnapshot
       /\ last.pre.ahead > 0
       /\ WroteSnapshot'
       /\ Len(inflight') < Len(inflight)
       /\ last'.pre.ahead < last.pre.ahead
       /\ prices' # prices)]_vars

\* C37 as stated: when a refreshPrices call completes with a success the
\* store has error = null and consecutiveFailures = 0, whatever fetchAllPrices
\* calls ran meanwhile.
C37_RefreshSuccessIsClean ==
  (WroteSnapshot /\ last.op = "refreshPrices") =>
    /\ error = NoError
    /\ consecutiveFailures = 0

\* C39: the price map is non-empty exactly when lastFetchTime is non-null.
C39_SnapshotIffFetchTime ==
  (prices # EmptyMap) <=> (lastFetchTime # <<>>)

\* A snapshot and its fetch time stay in place when a later fetch fails while
\* a third one is in flight.
C39_Witness ==
  /\ last.ev = "settle"
  /\ last.res.kind = "failure"
  /\ prices # EmptyMap
  /\ lastFetchTime = <<StartTime>>
  /\ now > StartTime
  /\ Len(inflight) = 1

\* C38 as stated: isLoading is false whenever no fetchAllPrices or
\* refreshPrices call is in flight, and every started fetch completes, so
\* that isLoading, once true, becomes false again.
C38_LoadingNeverSticks ==
  /\ [](pc \in {"idle", "done"} => ~isLoading)
  /\ isLoading ~> ~isLoading

(***************************************************************************)
(* The chart cache after an insert.                                        *)
(***************************************************************************)
\* C40: right after a getChartData call completed a network fetch with a
\* success, the cache holds an entry under the key of the call with exactly
\* the data the call returned: the eviction does not remove the entry just
\* inserted.
C40_InsertedEntryStays ==
  ChartSucceeded =>
    \E i \in EntriesOf(chartCache, last.op) :
      /\ chartCache[i].prices = ret.prices
      /\ chartCache[i].volumes = ret.volumes
      /\ ret.error = NoError

\* A new key is inserted into a cache of 20 entries that were all fetched at
\* the time of the insert; the first of them is evicted.
C40_Witness ==
  /\ ChartSucceeded
  /\ Len(last.pre.chartCache) = 20
  /\ EntriesOf(last.pre.chartCache, last.op) = {}
  /\ \A i \in 1..20 : last.pre.chartCache[i].fetchedAt = now
  /\ Evicted = {1}
  /\ chartCache[20].key = last.op

\* The ids of the alerts in a list of alerts, and of the alerts the entries of
\* a list of triggered alerts were made for.
ActiveIds(list) == {list[i].id : i \in 1..Len(list)}
SourceIds(list) == {list[i].alert.id : i \in 1..Len(list)}

\* C31: an alert triggers at most once.  No alert id has had two
\* TriggeredAlerts made for it, whether they are still listed or were cleared,
\* no two listed TriggeredAlerts are for the same alert, and no active alert
\* has the id of an alert that has triggered.
C31_TriggersAtMostOnce ==
  /\ \A i, j \in 1..Len(everTriggered) :
        i # j => everTriggered[i] # everTriggered[j]
  /\ \A i, j \in 1..Len(triggeredAlerts) :
        i # j => triggeredAlerts[i].alert.id # triggeredAlerts[j].alert.id
  /\ ActiveIds(activeAlerts) \cap SourceIds(triggeredAlerts) = {}
  /\ ActiveIds(activeAlerts) \cap {everTriggered[i] : i \in 1..Len(everTriggered)} = {}

\* An evaluation has triggered the only active alert after an earlier alert
\* triggered and the list of triggered alerts was cleared.
C31_Witness ==
  /\ last.ev = "evaluateAlerts"
  /\ Len(last.pre.activeAlerts) = 1
  /\ activeAlerts = <<>>
  /\ last.pre.triggeredAlerts = <<>>
  /\ Len(triggeredAlerts) = 1
  /\ Len(everTriggered) = 2

\* C32: markAllAsViewed sets viewed on every triggered alert and changes
\* nothing else: the list keeps its length, order and other fields and the
\* active alerts stay; on a list that is all viewed it changes nothing; and no
\* operation takes viewed back from true to false on an entry it keeps.
C32_MarkAllAsViewed ==
  /\ last.ev = "markAllAsViewed" =>
        /\ Len(triggeredAlerts) = Len(last.pre.triggeredAlerts)
        /\ \A i \in 1..Len(triggeredAlerts) :
              triggeredAlerts[i] = [last.pre.triggeredAlerts[i] EXCEPT !.viewed = TRUE]
        /\ activeAlerts = last.pre.activeAlerts
        /\ Unviewed(last.pre.triggeredAlerts) = {} =>
              triggeredAlerts = last.pre.triggeredAlerts
  /\ last.ev \in {"addAlert", "removeAlert", "updateAlert"} =>
        triggeredAlerts = last.pre.triggeredAlerts
  /\ last.ev = "evaluateAlerts" =>
        \A i \in 1..Len(last.pre.triggeredAlerts) :
          LET kept == triggeredAlerts[Len(triggeredAlerts)
                                        - Len(last.pre.triggeredAlerts) + i]
          IN /\ kept.id = last.pre.triggeredAlerts[i].id
             /\ last.pre.triggeredAlerts[i].viewed => kept.viewed

\* markAllAsViewed found two triggered alerts, the newer one not viewed and
\* the older one viewed by an earlier call.
C32_Witness ==
  /\ last.ev = "markAllAsViewed"
  /\ Len(last.pre.triggeredAlerts) = 2
  /\ ~last.pre.triggeredAlerts[1].viewed
  /\ last.pre.triggeredAlerts[2].viewed
  /\ Unviewed(triggeredAlerts) = {}

\* C33: the unviewedCount of the store and the useUnviewedAlertCount selector
\* both equal the number of triggered alerts that are not viewed.
C33_UnviewedCount ==
  /\ ReadUnviewedCount = Cardinality(Unviewed(triggeredAlerts))
  /\ useUnviewedAlertCount = Cardinality(Unviewed(triggeredAlerts))

\* The alert whose id has serial number n is active, and has triggered.
ActiveNo(n) == \E i \in 1..Len(activeAlerts) : activeAlerts[i].id[2] = n
TriggeredNo(n) == \E i \in 1..Len(everTriggered) : everTriggered[i][2] = n
HoldsFor(n) ==
  \E i \in 1..Len(activeAlerts) :
    activeAlerts[i].id[2] = n /\ IsTriggered(activeAlerts[i], prices)

\* C34: every successful price update is forwarded to the alert engine.  When
\* a successful fetch has stored a snapshot under which the condition of an
\* active alert holds, that alert is eventually moved to the triggered list
\* (unless the user replaces it first).
C34_ForwardedToAlerts ==
  \A n \in 1..(MaxAlertIds + 2) :
    (last.ev = "pricesArrive" /\ effectPending /\ HoldsFor(n))
      ~> (TriggeredNo(n) \/ ~ActiveNo(n))
====
